---- MODULE Spec2Model ----
(***************************************************************************)
(* State-machine model of the FAIR scientific-data search stack:           *)
(*   VectorIndex      (src/lib/vector_index.py)                            *)
(*   FAIRSearchEngine (src/lib/search_engine.py, src/lib/archive_handler.py)*)
(*   FileValidator    (src/lib/file_validator.py, src/lib/config.py)       *)
(* Ordinals are 0-based as in the Python source; TLA+ sequences are        *)
(* 1-based, so ordinal i lives at sequence position i + 1.                 *)
(***************************************************************************)
EXTENDS Integers, Sequences, FiniteSets, TLC

VARIABLES
    vectors,        \* VectorIndex.index: the flat FAISS store, one row per ordinal
    metadata_store, \* VectorIndex.metadata_store
    filepath_map,   \* VectorIndex.filepath_map: filepath -> list of ordinals
    embedding_dim,  \* VectorIndex.embedding_dim
    disk,           \* the three persisted artifacts (index, metadata, filepath map)
    engine,         \* FAIRSearchEngine: not constructed, or its embedding model
    files,          \* the data files of the directory the engine indexes
    vfile,          \* the file handed to FileValidator.check_file_signature
    tree,           \* the directories the companion finder and the archive handler read
    agent,          \* the discovery agent's run and its judgment collaborator
    writers,        \* the callers running VectorIndex.add concurrently
    cache,          \* CachedEmbeddingGenerator.cache: text -> embedding
    res             \* the value (or exception) the last call produced

indexVars == <<vectors, metadata_store, filepath_map, embedding_dim>>
auxVars == <<tree, agent, writers, cache>>
vars == <<vectors, metadata_store, filepath_map, embedding_dim,
          disk, engine, files, vfile, tree, agent, writers,
          cache, res>>

----------------------------------------------------------------------------
(* Bounds of the model *)

\* the largest number of rows the flat store may reach
MaxVectors == 3
\* the largest batch one add call carries
MaxBatch == 2

----------------------------------------------------------------------------
(* Value domains *)

\* filepaths that are truthy in Python
Paths == {"a", "b"}
\* meta.get('filepath') being falsy: key missing, None or ''
NoPath == ""
\* unit directions (1,0), (0,1), (-1,0) of the embedding space
Dirs == 0..2
\* directions of the queries; a query along direction 2 ranks a store as a
\* query along 0 ranks the store mirrored (0 <-> 2), which is reachable too
QueryDirs == {0, 1}
\* magnitudes of raw (not yet normalized) vectors
Mags == {1, 2}
\* embedding dimensions of the available models
Dims == {2, 3}

\* a metadata dict: its filepath and the searchable text it yields
MetaRecords == [filepath : Paths, text : Dirs] \cup
               {[filepath |-> NoPath, text |-> 1]}

\* the optional threshold argument of search: None or a score in hundredths
Thresholds == {[none |-> TRUE, v |-> 0]} \cup
              [none : {FALSE}, v : {-50, 0, 50}]
\* top_k below, at and above the number of rows the store can hold
TopKs == {1, 2, MaxVectors + 1}

\* no call has returned since the caller consumed the last result
Idle == [op |-> "none"]

EmptyMap == [p \in {} |-> <<>>]

\* the dimension of the configured embedding model
ModelDim == CHOOSE d \in Dims : TRUE

\* an artifact file that does not exist
Missing == [present |-> FALSE, value |-> <<>>]
\* the index directory before the first save
NoDisk == [index |-> [present |-> FALSE, d |-> 0, rows |-> <<>>],
           metadata |-> Missing, filepath_map |-> Missing]

\* no directory is being read, no agent runs, no caller is inside add
NoTree == [layout |-> "none"]
NoAgent == [run |-> "none"]
NoWriters == <<>>
\* the embedding cache of a generator that is not in use
NoCache == <<>>

\* no file is under validation
NoFile == [exists |-> FALSE, readable |-> FALSE, size |-> 0,
           ext |-> "", header |-> <<>>]

----------------------------------------------------------------------------
(* Embeddings: inner product in hundredths, L2 normalization *)

\* cosine of the angle between two unit directions, in hundredths
Cos100(a, b) ==
    IF a = b THEN 100
    ELSE IF a - b = 1 \/ b - a = 1 THEN 0
    ELSE -100

\* inner product of two vectors given by direction and magnitude
Dot(u, v) == u.mag * v.mag * Cos100(u.dir, v.dir)

\* faiss.normalize_L2 on one row
NormalizeL2(e) == [e EXCEPT !.mag = 1]

\* the embedding collaborator: text -> unit vector of the model's dimension
Encode(text, dim) == [dir |-> text, mag |-> 1, dim |-> dim]

\* a FAISS row keeps the coordinates only
Row(e) == [dir |-> e.dir, mag |-> e.mag]

----------------------------------------------------------------------------
(* VectorIndex.add *)

SeqsUpTo(S, n) == UNION {[1..k -> S] : k \in 0..n}

\* a faulty variant: the map entry of a path is overwritten by the newest ordinal
MapAppendOverwrite(fmap, fp, ord) ==
    [p \in DOMAIN fmap \cup {fp} |-> IF p = fp THEN <<ord>> ELSE fmap[p]]

\* lines 71-73: create the list on first sight, then append the ordinal
MapAppend(fmap, fp, ord) ==
    IF fp \in DOMAIN fmap
    THEN [fmap EXCEPT ![fp] = Append(@, ord)]
    ELSE [p \in DOMAIN fmap \cup {fp} |-> IF p = fp THEN <<ord>> ELSE fmap[p]]

\* lines 68-73: the loop over the batch's metadata
RECURSIVE UpdateFilepathMap(_, _, _, _)
UpdateFilepathMap(fmap, metas, i, start_idx) ==
    IF i > Len(metas) THEN fmap
    ELSE LET fp == metas[i].filepath
         IN UpdateFilepathMap(
                IF fp # NoPath THEN MapAppend(fmap, fp, start_idx + i - 1) ELSE fmap,
                metas, i + 1, start_idx)

\* a faulty variant: add without the length comparison of lines 53-54, which
\* stores the rows and the records it was given
AddResultNoSizeCheck(vs, ms, fm, dim, embs, metas) ==
    IF \E i \in 1..Len(embs) : embs[i].dim # dim
    THEN [status |-> "AssertionError", vectors |-> vs,
          metadata_store |-> ms, filepath_map |-> fm]
    ELSE [status |-> "ok",
          vectors |-> vs \o [i \in 1..Len(embs) |-> Row(NormalizeL2(embs[i]))],
          metadata_store |-> ms \o metas,
          filepath_map |-> UpdateFilepathMap(fm, metas, 1, Len(vs))]

\* add(embeddings, metadata) on the stores (vs, ms, fm) of an index of
\* dimension dim: the outcome and the stores afterwards
AddResult(vs, ms, fm, dim, embs, metas) ==
    IF Len(embs) # Len(metas)
    THEN [status |-> "ValueError", vectors |-> vs,
          metadata_store |-> ms, filepath_map |-> fm]
    ELSE IF \E i \in 1..Len(embs) : embs[i].dim # dim
    THEN \* self.index.add refuses rows of another width; nothing was stored yet
         [status |-> "AssertionError", vectors |-> vs,
          metadata_store |-> ms, filepath_map |-> fm]
    ELSE [status |-> "ok",
          vectors |-> vs \o [i \in 1..Len(embs) |-> Row(NormalizeL2(embs[i]))],
          metadata_store |-> ms \o metas,
          filepath_map |-> UpdateFilepathMap(fm, metas, 1, Len(vs))]

\* a caller's batch: the rows are the embeddings of the records' texts,
\* nE rows for Len(metas) records
BatchRows(metas, nE, mag, dim) ==
    [i \in 1..nE |->
        [dir |-> IF i <= Len(metas) THEN metas[i].text ELSE 0,
         mag |-> mag, dim |-> dim]]

Add(embs, metas) ==
    /\ res = Idle
    /\ Len(vectors) + Len(embs) <= MaxVectors
    /\ LET r == AddResult(vectors, metadata_store, filepath_map,
                          embedding_dim, embs, metas)
       IN /\ vectors' = r.vectors
          /\ metadata_store' = r.metadata_store
          /\ filepath_map' = r.filepath_map
          /\ res' = [op |-> "add", status |-> r.status,
                     embeddings |-> Len(embs), metadata |-> Len(metas)]
    /\ UNCHANGED <<embedding_dim, disk, engine, files, vfile, auxVars>>

----------------------------------------------------------------------------
(* VectorIndex.search *)

Truthy(t) == ~t.none /\ t.v # 0

\* FAISS pads the answer with ordinal -1 when fewer than top_k rows exist
PadEntry == [score |-> -1000000, idx |-> -1]

\* the positions of rest (a set of 1-based positions) with the best score
Best(vs, q, rest) ==
    {i \in rest : \A j \in rest : Dot(q, vs[i]) >= Dot(q, vs[j])}

\* the m best rows by descending inner product; rows of equal score may
\* come in any order, so this is the set of answers the store may give
RECURSIVE TopRows(_, _, _, _)
TopRows(vs, q, rest, m) ==
    IF m = 0 \/ rest = {} THEN {<<>>}
    ELSE UNION {{<<[score |-> Dot(q, vs[i]), idx |-> i - 1]>> \o t :
                    t \in TopRows(vs, q, rest \ {i}, m - 1)} :
                i \in Best(vs, q, rest)}

\* line 97: self.index.search(query_embedding, top_k)
FaissSearch(vs, q, top_k) ==
    {t \o [i \in 1..(top_k - Len(t)) |-> PadEntry] :
        t \in TopRows(vs, q, 1..Len(vs), top_k)}

ResultEntry(md, r) ==
    [filepath |-> md.filepath, text |-> md.text,
     similarity_score |-> r.score, index_position |-> r.idx]

\* a faulty variant: the loop without the seen_filepaths check
RECURSIVE FormatResultsNoDedup(_, _, _, _, _, _)
FormatResultsNoDedup(ms, ranked, i, t, results, seen) ==
    IF i > Len(ranked) THEN [status |-> "ok", results |-> results]
    ELSE LET r == ranked[i] IN
         IF r.idx = -1
         THEN FormatResultsNoDedup(ms, ranked, i + 1, t, results, seen)
         ELSE IF Truthy(t) /\ r.score < t.v
         THEN FormatResultsNoDedup(ms, ranked, i + 1, t, results, seen)
         ELSE IF r.idx + 1 > Len(ms)
         THEN [status |-> "IndexError", results |-> <<>>]
         ELSE FormatResultsNoDedup(ms, ranked, i + 1, t,
                  Append(results, ResultEntry(ms[r.idx + 1], r)), seen)

\* lines 101-128: the loop over the ranked rows
RECURSIVE FormatResults(_, _, _, _, _, _)
FormatResults(ms, ranked, i, t, results, seen) ==
    IF i > Len(ranked) THEN [status |-> "ok", results |-> results]
    ELSE LET r == ranked[i] IN
         IF r.idx = -1
         THEN FormatResults(ms, ranked, i + 1, t, results, seen)
         ELSE IF Truthy(t) /\ r.score < t.v
         THEN FormatResults(ms, ranked, i + 1, t, results, seen)
         ELSE IF r.idx + 1 > Len(ms)
         THEN \* self.metadata_store[idx] past the end of the list
              [status |-> "IndexError", results |-> <<>>]
         ELSE LET md == ms[r.idx + 1]
                  fp == md.filepath
              IN IF fp # NoPath /\ fp \in seen
                 THEN FormatResults(ms, ranked, i + 1, t, results, seen)
                 ELSE FormatResults(ms, ranked, i + 1, t,
                          Append(results, ResultEntry(md, r)),
                          IF fp # NoPath THEN seen \cup {fp} ELSE seen)

\* search(query_embedding, top_k, threshold): the answers it may return
SearchResults(vs, ms, dim, query, top_k, t) ==
    IF Len(vs) = 0 THEN {[status |-> "ok", results |-> <<>>]}
    ELSE IF query.dim # dim THEN {[status |-> "AssertionError", results |-> <<>>]}
    ELSE {FormatResults(ms, ranked, 1, t, <<>>, {}) :
             ranked \in FaissSearch(vs, Row(NormalizeL2(query)), top_k)}

Search(query, top_k, t) ==
    /\ res = Idle
    /\ \E r \in SearchResults(vectors, metadata_store, embedding_dim, query, top_k, t) :
          res' = [op |-> "search", status |-> r.status, results |-> r.results,
                  query |-> Row(NormalizeL2(query)), top_k |-> top_k, threshold |-> t]
    /\ UNCHANGED <<indexVars, disk, engine, files, vfile, auxVars>>

----------------------------------------------------------------------------
(* VectorIndex.remove_duplicates and get_stats *)

\* lines 151-161: first occurrence of every filepath, every record without one
RECURSIVE KeepFirst(_, _, _, _)
KeepFirst(ms, i, new_metadata, new_filepath_map) ==
    IF i > Len(ms)
    THEN [new_metadata |-> new_metadata, new_filepath_map |-> new_filepath_map]
    ELSE LET fp == ms[i].filepath IN
         IF fp # NoPath
         THEN IF fp \notin DOMAIN new_filepath_map
              THEN KeepFirst(ms, i + 1, Append(new_metadata, ms[i]),
                       [p \in DOMAIN new_filepath_map \cup {fp} |->
                           IF p = fp THEN <<Len(new_metadata)>>
                           ELSE new_filepath_map[p]])
              ELSE KeepFirst(ms, i + 1, new_metadata, new_filepath_map)
         ELSE KeepFirst(ms, i + 1, Append(new_metadata, ms[i]), new_filepath_map)

\* lines 179-188: _rebuild_index_subset replaces the metadata and the map and
\* leaves the FAISS rows as they are
RebuildIndexSubset(vs, new_metadata, new_filepath_map) ==
    [vectors |-> vs, metadata_store |-> new_metadata,
     filepath_map |-> new_filepath_map]

RemoveDuplicatesResult(vs, ms, fm) ==
    LET duplicates == {fp \in DOMAIN fm : Len(fm[fp]) > 1}
        kept == KeepFirst(ms, 1, <<>>, EmptyMap)
    IN IF duplicates = {}
       THEN [vectors |-> vs, metadata_store |-> ms, filepath_map |-> fm,
             total_duplicates |-> 0, filepaths_affected |-> 0]
       ELSE IF Len(kept.new_metadata) < Len(ms)
       THEN LET n == RebuildIndexSubset(vs, kept.new_metadata, kept.new_filepath_map)
            IN [vectors |-> n.vectors, metadata_store |-> n.metadata_store,
                filepath_map |-> n.filepath_map,
                \* line 173 reads self.metadata_store after it was replaced
                total_duplicates |-> Len(n.metadata_store) - Len(kept.new_metadata),
                filepaths_affected |-> Cardinality(duplicates)]
       ELSE [vectors |-> vs, metadata_store |-> ms, filepath_map |-> fm,
             total_duplicates |-> 0, filepaths_affected |-> 0]

RemoveDuplicates ==
    /\ res = Idle
    /\ LET r == RemoveDuplicatesResult(vectors, metadata_store, filepath_map)
       IN /\ vectors' = r.vectors
          /\ metadata_store' = r.metadata_store
          /\ filepath_map' = r.filepath_map
          /\ res' = [op |-> "remove_duplicates",
                     total_duplicates |-> r.total_duplicates,
                     filepaths_affected |-> r.filepaths_affected]
    /\ UNCHANGED <<embedding_dim, disk, engine, files, vfile, auxVars>>

GetStats ==
    /\ res = Idle
    /\ res' = [op |-> "get_stats",
               total_vectors |-> Len(vectors),
               total_metadata |-> Len(metadata_store),
               unique_files |-> Cardinality(DOMAIN filepath_map),
               embedding_dim |-> embedding_dim]
    /\ UNCHANGED <<indexVars, disk, engine, files, vfile, auxVars>>

\* the caller has read the returned value
Ack ==
    /\ res # Idle
    /\ res.op # "check_running"
    /\ res' = Idle
    /\ UNCHANGED <<indexVars, disk, engine, files, vfile, auxVars>>

----------------------------------------------------------------------------
(* Specifications of the in-memory index *)

\* VectorIndex.__init__
InitIndex ==
    /\ vectors = <<>>
    /\ metadata_store = <<>>
    /\ filepath_map = EmptyMap
    /\ embedding_dim = ModelDim
    /\ disk = NoDisk
    /\ engine = [up |-> FALSE]
    /\ files = <<>>
    /\ vfile = NoFile
    /\ tree = NoTree
    /\ agent = NoAgent
    /\ writers = NoWriters
    /\ cache = NoCache
    /\ res = Idle

\* add with one row per record
AddCall ==
    /\ res = Idle
    /\ \E metas \in SeqsUpTo(MetaRecords, MaxBatch), mag \in Mags :
          Add(BatchRows(metas, Len(metas), mag, embedding_dim), metas)

\* add with a number of rows that differs from the number of records
AddMismatched ==
    /\ res = Idle
    /\ \E metas \in SeqsUpTo(MetaRecords, 1), nE \in 0..MaxBatch, mag \in Mags :
          /\ nE # Len(metas)
          /\ Add(BatchRows(metas, nE, mag, embedding_dim), metas)

SearchCall ==
    /\ res = Idle
    /\ \E dir \in QueryDirs, mag \in Mags, top_k \in TopKs, t \in Thresholds :
          Search([dir |-> dir, mag |-> mag, dim |-> embedding_dim], top_k, t)

NextAdd == AddCall \/ AddMismatched \/ SearchCall \/ GetStats \/ Ack

Next == AddCall \/ AddMismatched \/ SearchCall \/ RemoveDuplicates \/ GetStats \/ Ack

\* add, search and get_stats on a fresh index
SpecAdd == InitIndex /\ [][NextAdd]_vars

\* the whole in-memory interface of VectorIndex
Spec == InitIndex /\ [][Next]_vars

----------------------------------------------------------------------------
(* VectorIndex.save and VectorIndex.load *)

\* lines 208-217: the three artifacts written one after the other
SaveResult(vs, ms, fm, dim) ==
    [index |-> [present |-> TRUE, d |-> dim, rows |-> vs],
     metadata |-> [present |-> TRUE, value |-> ms],
     filepath_map |-> [present |-> TRUE, value |-> fm]]

\* lines 230-251: the index load builds from the artifacts dsk
LoadResult(dsk) ==
    IF ~dsk.index.present
    THEN [status |-> "FileNotFoundError", vectors |-> <<>>, metadata_store |-> <<>>,
          filepath_map |-> EmptyMap, embedding_dim |-> 0]
    ELSE [status |-> "ok",
          vectors |-> dsk.index.rows,
          embedding_dim |-> dsk.index.d,
          metadata_store |-> IF dsk.metadata.present THEN dsk.metadata.value ELSE <<>>,
          filepath_map |-> IF dsk.filepath_map.present
                           THEN dsk.filepath_map.value ELSE EmptyMap]

Save ==
    /\ res = Idle
    /\ disk' = SaveResult(vectors, metadata_store, filepath_map, embedding_dim)
    /\ res' = [op |-> "save"]
    /\ UNCHANGED <<indexVars, engine, files, vfile, auxVars>>

\* the loaded instance replaces the one the process worked with
Load ==
    /\ res = Idle
    /\ LET r == LoadResult(disk) IN
       IF r.status = "ok"
       THEN /\ vectors' = r.vectors
            /\ metadata_store' = r.metadata_store
            /\ filepath_map' = r.filepath_map
            /\ embedding_dim' = r.embedding_dim
            /\ res' = [op |-> "load", status |-> "ok"]
       ELSE /\ UNCHANGED indexVars
            /\ res' = [op |-> "load", status |-> r.status]
    /\ UNCHANGED <<disk, engine, files, vfile, auxVars>>

\* one artifact file is removed from the index directory
LoseArtifact(k) ==
    /\ res = Idle
    /\ disk[k].present
    /\ disk' = [disk EXCEPT ![k] = NoDisk[k]]
    /\ UNCHANGED <<indexVars, engine, files, vfile, res, auxVars>>

\* records of the persistence runs
PersistRecords == [filepath : Paths, text : {0}]

PersistAdd ==
    /\ res = Idle
    /\ \E m \in PersistRecords :
          Add(BatchRows(<<m>>, 1, 1, embedding_dim), <<m>>)

LoseAny == \E k \in {"index", "metadata", "filepath_map"} : LoseArtifact(k)

NextPersist == PersistAdd \/ RemoveDuplicates \/ Save \/ Load \/ LoseAny \/ Ack

\* an index that is filled, compacted, saved and loaded again
SpecPersist == InitIndex /\ [][NextPersist]_vars

\* C8: load returns an index only when the three artifacts are present and
\* agree: the metadata list is as long as the vector store and every ordinal
\* of the filepath map is in range; otherwise it fails with an error.
C8_LoadRefusesInconsistent ==
    (res.op = "load" /\ res.status = "ok") =>
        /\ disk.index.present /\ disk.metadata.present /\ disk.filepath_map.present
        /\ Len(metadata_store) = Len(vectors)
        /\ \A p \in DOMAIN filepath_map :
              \A k \in 1..Len(filepath_map[p]) :
                 filepath_map[p][k] < Len(vectors)

----------------------------------------------------------------------------
(* FAIRSearchEngine *)

\* the number of data files in the indexed directory
NFiles == 2

FilePaths == <<"a", "b", "c", "d">>
PathOf(i) == FilePaths[i]
\* the searchable text of file i, as the direction its embedding takes
TextOf(i) == (i - 1) % 3

\* what the validator and the extractor make of a file: the verdict of the
\* signature check, and whether extraction gives a record, a record with an
\* 'error' key, or raises
FileKinds == [sig : BOOLEAN, ext : {"ok", "error", "raise"}]

\* metadata_extractor.extract(filepath) when it returns
Extract(f, i) ==
    [filepath |-> PathOf(i), text |-> TextOf(i), error |-> f[i].ext = "error"]

\* lines 21-42: load the persisted index when asked to and present, else
\* create one of the model's dimension
EngineInit(load_existing) ==
    /\ res = Idle
    /\ ~engine.up
    /\ IF load_existing /\ disk.index.present
       THEN LET r == LoadResult(disk) IN
            /\ vectors' = r.vectors
            /\ metadata_store' = r.metadata_store
            /\ filepath_map' = r.filepath_map
            /\ embedding_dim' = r.embedding_dim
       ELSE /\ vectors' = <<>>
            /\ metadata_store' = <<>>
            /\ filepath_map' = EmptyMap
            /\ embedding_dim' = ModelDim
    /\ engine' = [up |-> TRUE]
    /\ res' = [op |-> "engine_init", status |-> "ok", mismatch_reported |-> FALSE]
    /\ UNCHANGED <<disk, files, vfile, auxVars>>

\* a faulty variant: index_file that goes on after the extractor reported an error
IndexFileResultIgnoreError(vs, ms, fm, dim, f, i, validate) ==
    IF validate /\ ~f[i].sig
    THEN [status |-> "error", vectors |-> vs, metadata_store |-> ms, filepath_map |-> fm]
    ELSE IF f[i].ext = "raise"
    THEN [status |-> "raised", vectors |-> vs, metadata_store |-> ms, filepath_map |-> fm]
    ELSE LET a == AddResult(vs, ms, fm, dim,
                            <<Encode(TextOf(i), ModelDim)>>, <<Extract(f, i)>>)
         IN [status |-> IF f[i].ext = "error" THEN "error"
                        ELSE IF a.status = "ok" THEN "success" ELSE "raised",
             vectors |-> a.vectors, metadata_store |-> a.metadata_store,
             filepath_map |-> a.filepath_map]

\* lines 44-92: index_file(filepath, validate) on file i of the directory f
IndexFileResult(vs, ms, fm, dim, f, i, validate) ==
    IF validate /\ ~f[i].sig
    THEN \* lines 51-54: the validator's message is returned
         [status |-> "error", vectors |-> vs, metadata_store |-> ms, filepath_map |-> fm]
    ELSE IF f[i].ext = "raise"
    THEN \* line 57: the extractor's exception leaves index_file
         [status |-> "raised", vectors |-> vs, metadata_store |-> ms, filepath_map |-> fm]
    ELSE IF f[i].ext = "error"
    THEN \* lines 59-60: the record with the 'error' key is returned
         [status |-> "error", vectors |-> vs, metadata_store |-> ms, filepath_map |-> fm]
    ELSE LET a == AddResult(vs, ms, fm, dim,
                            <<Encode(TextOf(i), ModelDim)>>, <<Extract(f, i)>>)
         IN [status |-> IF a.status = "ok" THEN "success" ELSE "raised",
             vectors |-> a.vectors, metadata_store |-> a.metadata_store,
             filepath_map |-> a.filepath_map]

IndexFile(i, validate) ==
    /\ res = Idle
    /\ engine.up
    /\ Len(vectors) < MaxVectors
    /\ LET r == IndexFileResult(vectors, metadata_store, filepath_map,
                                embedding_dim, files, i, validate)
       IN /\ vectors' = r.vectors
          /\ metadata_store' = r.metadata_store
          /\ filepath_map' = r.filepath_map
          /\ res' = [op |-> "index_file", status |-> r.status,
                     file |-> i, validate |-> validate]
    /\ UNCHANGED <<embedding_dim, disk, engine, files, vfile, auxVars>>

\* archive_handler.py lines 178-202 over the directory's data files: the
\* records of the files whose extraction returned, and the number of files
\* whose extraction raised
RECURSIVE IndexPath(_, _, _, _)
IndexPath(f, i, indexed_files, errors) ==
    IF i > Len(f) THEN [indexed_files |-> indexed_files, errors |-> errors]
    ELSE IF f[i].ext = "raise"
    THEN IndexPath(f, i + 1, indexed_files, errors + 1)
    ELSE IndexPath(f, i + 1, Append(indexed_files, Extract(f, i)), errors)

\* search_engine.py lines 119-151: embed and add every record; an exception
\* counts as an error and the loop goes on
RECURSIVE IndexLoop(_, _, _, _, _, _, _)
IndexLoop(recs, k, vs, ms, fm, dim, counts) ==
    IF k > Len(recs)
    THEN [vectors |-> vs, metadata_store |-> ms, filepath_map |-> fm,
          indexed |-> counts.indexed, errors |-> counts.errors]
    ELSE LET a == AddResult(vs, ms, fm, dim,
                            <<Encode(recs[k].text, ModelDim)>>, <<recs[k]>>)
         IN IF a.status = "ok"
            THEN IndexLoop(recs, k + 1, a.vectors, a.metadata_store, a.filepath_map,
                           dim, [counts EXCEPT !.indexed = @ + 1])
            ELSE IndexLoop(recs, k + 1, vs, ms, fm, dim,
                           [counts EXCEPT !.errors = @ + 1])

\* lines 94-159: index_directory(directory, validate); validate is not read
IndexDirectoryResult(vs, ms, fm, dim, f, validate) ==
    LET results == IndexPath(f, 1, <<>>, 0)
        done == IndexLoop(results.indexed_files, 1, vs, ms, fm, dim,
                          [indexed |-> 0, errors |-> 0])
    IN [vectors |-> done.vectors, metadata_store |-> done.metadata_store,
        filepath_map |-> done.filepath_map,
        indexed |-> done.indexed, errors |-> done.errors,
        detail_errors |-> results.errors + done.errors]

IndexDirectory(validate) ==
    /\ res = Idle
    /\ engine.up
    /\ Len(vectors) + Len(files) <= MaxVectors
    /\ LET r == IndexDirectoryResult(vectors, metadata_store, filepath_map,
                                     embedding_dim, files, validate)
       IN /\ vectors' = r.vectors
          /\ metadata_store' = r.metadata_store
          /\ filepath_map' = r.filepath_map
          /\ res' = [op |-> "index_directory", validate |-> validate,
                     indexed |-> r.indexed, errors |-> r.errors,
                     detail_errors |-> r.detail_errors,
                     added |-> Len(r.metadata_store) - Len(metadata_store)]
    /\ UNCHANGED <<embedding_dim, disk, engine, files, vfile, auxVars>>

\* lines 161-171: the query text is embedded with the engine's model
EngineSearch(text, top_k, t) ==
    /\ engine.up
    /\ Search(Encode(text, ModelDim), top_k, t)

InitEngine ==
    /\ vectors = <<>>
    /\ metadata_store = <<>>
    /\ filepath_map = EmptyMap
    /\ embedding_dim = ModelDim
    /\ disk \in {NoDisk} \cup {SaveResult(<<>>, <<>>, EmptyMap, d) : d \in Dims}
    /\ engine = [up |-> FALSE]
    /\ files \in [1..NFiles -> FileKinds]
    /\ vfile = NoFile
    /\ tree = NoTree
    /\ agent = NoAgent
    /\ writers = NoWriters
    /\ cache = NoCache
    /\ res = Idle

EngineStart == \E load_existing \in BOOLEAN : EngineInit(load_existing)

IndexFileCall ==
    /\ res = Idle
    /\ \E i \in 1..NFiles, validate \in BOOLEAN : IndexFile(i, validate)

IndexDirectoryCall == \E validate \in BOOLEAN : IndexDirectory(validate)

EngineSearchCall ==
    /\ res = Idle
    /\ \E text \in QueryDirs : EngineSearch(text, MaxVectors + 1, [none |-> TRUE, v |-> 0])

NextEngine ==
    EngineStart \/ IndexFileCall \/ IndexDirectoryCall \/ EngineSearchCall \/ Ack

\* an engine constructed over the index directory, indexing and searching
SpecEngine == InitEngine /\ [][NextEngine]_vars

\* file i passes the gate of a call made with this validate flag
Accepted(i, validate) == files[i].ext = "ok" /\ (validate => files[i].sig)

\* C3: index_directory over K valid and J invalid or corrupt files returns
\* indexed = K and errors = J and the index gains exactly K records.
C3_PartialFailureCounts ==
    res.op = "index_directory" =>
        LET K == Cardinality({i \in 1..NFiles : Accepted(i, res.validate)})
        IN /\ res.indexed = K
           /\ res.errors = NFiles - K
           /\ res.added = K

\* C4: with validate = True a file enters the index only if its signature
\* check reported it valid and its extraction reported no error, in
\* index_file and in index_directory.
C4_OnlyValidFilesEnter ==
    [][(res'.op \in {"index_file", "index_directory"} /\ res'.validate) =>
          \A k \in (Len(metadata_store) + 1)..Len(metadata_store') :
             \E i \in 1..NFiles :
                /\ metadata_store'[k].filepath = PathOf(i)
                /\ files[i].sig
                /\ files[i].ext = "ok"]_vars

\* C5: index_file adds exactly one entry when it returns success and leaves
\* the vector store, the metadata store and the filepath map unchanged when
\* it returns an error.
C5_IndexFileFrame ==
    [][res'.op = "index_file" =>
          IF res'.status = "success"
          THEN /\ Len(vectors') = Len(vectors) + 1
               /\ SubSeq(vectors', 1, Len(vectors)) = vectors
               /\ Len(metadata_store') = Len(metadata_store) + 1
               /\ SubSeq(metadata_store', 1, Len(metadata_store)) = metadata_store
               /\ metadata_store'[Len(metadata_store')].filepath = PathOf(res'.file)
               /\ filepath_map' = MapAppend(filepath_map, PathOf(res'.file), Len(vectors))
          ELSE UNCHANGED <<vectors, metadata_store, filepath_map>>]_vars

\* C5 witness: an error return of index_file for a corrupt file on an index
\* that already holds an entry added by a successful index_file
C5_Witness ==
    /\ res.op = "index_file"
    /\ res.status = "error"
    /\ files[res.file].ext = "error"
    /\ (res.validate => files[res.file].sig)
    /\ Len(metadata_store) >= 1
    /\ Len(vectors) = Len(metadata_store)

\* C9: an engine constructed over a persisted index whose dimension differs
\* from the model's refuses or reports the mismatch, and never indexes or
\* searches with a dimension that differs from the loaded index.
C9_DimensionMismatchRefused ==
    /\ (res.op = "engine_init" /\ embedding_dim # ModelDim) =>
          (res.status # "ok" \/ res.mismatch_reported)
    /\ (res.op \in {"index_file", "index_directory", "search"}) =>
          embedding_dim = ModelDim

----------------------------------------------------------------------------
(* FileValidator.check_file_signature *)

\* config.MIN_FILE_SIZE
MIN_FILE_SIZE == 100

\* config.MAGIC_BYTES in the order of the dict, signatures as byte values
MAGIC_BYTES ==
    << [type |-> "netcdf", signatures |-> << <<67, 68, 70, 1>>, <<67, 68, 70, 2>>,
                                             <<137, 72, 68, 70, 13, 10, 26, 10>> >>],
       [type |-> "hdf5",   signatures |-> << <<137, 72, 68, 70, 13, 10, 26, 10>> >>],
       [type |-> "grib",   signatures |-> << <<71, 82, 73, 66>> >>],
       [type |-> "html",   signatures |-> << <<60, 33, 68, 79, 67, 84, 89, 80, 69>>,
                                             <<60, 104, 116, 109, 108>>,
                                             <<60, 72, 84, 77, 76>> >>],
       [type |-> "xml",    signatures |-> << <<60, 63, 120, 109, 108>> >>],
       [type |-> "pdf",    signatures |-> << <<37, 80, 68, 70>> >>],
       [type |-> "zip",    signatures |-> << <<80, 75, 3, 4>>, <<80, 75, 5, 6>> >>],
       [type |-> "tar",    signatures |-> << <<117, 115, 116, 97, 114, 0>>,
                                             <<117, 115, 116, 97, 114, 32, 32, 0>> >>],
       [type |-> "gzip",   signatures |-> << <<31, 139>> >> ] >>

\* bytes.startswith
StartsWith(header, signature) ==
    /\ Len(header) >= Len(signature)
    /\ SubSeq(header, 1, Len(signature)) = signature

\* filepath.suffix.lower() on the suffixes of the model
Lower(ext) ==
    CASE ext = ".NC" -> ".nc"
      [] ext = ".H5" -> ".h5"
      [] ext = ".GRB" -> ".grb"
      [] OTHER -> ext

\* lines 41-47
ExpectedType(ext) ==
    IF Lower(ext) \in {".nc", ".nc4"} THEN "netcdf"
    ELSE IF Lower(ext) \in {".hdf", ".hdf5", ".h5"} THEN "hdf5"
    ELSE IF Lower(ext) \in {".grb", ".grb2", ".grib", ".grib2"} THEN "grib"
    ELSE "None"

\* lines 58-63: the types, in table order, one of whose signatures the header starts with
RECURSIVE DetectedTypes(_, _)
DetectedTypes(header, k) ==
    IF k > Len(MAGIC_BYTES) THEN <<>>
    ELSE IF \E j \in 1..Len(MAGIC_BYTES[k].signatures) :
               StartsWith(header, MAGIC_BYTES[k].signatures[j])
    THEN <<MAGIC_BYTES[k].type>> \o DetectedTypes(header, k + 1)
    ELSE DetectedTypes(header, k + 1)

\* lines 65-66
DetectedType(header) ==
    IF DetectedTypes(header, 1) # <<>> THEN DetectedTypes(header, 1)[1] ELSE "None"

\* a faulty variant: the validation logic without the HTML and XML branches
CheckFileSignatureResultNoMarkup(f) ==
    LET base == [exists |-> f.exists, size |-> IF f.exists THEN f.size ELSE 0,
                 detected_type |-> "None", expected_type |-> "None",
                 is_valid |-> FALSE, issues |-> <<>>]
        expected == ExpectedType(f.ext)
        detected == DetectedType(f.header)
        typed == [base EXCEPT !.expected_type = expected, !.detected_type = detected]
    IN IF ~f.exists THEN [base EXCEPT !.issues = <<"File does not exist">>]
       ELSE IF f.size < MIN_FILE_SIZE THEN [base EXCEPT !.issues = <<"File too small">>]
       ELSE IF ~f.readable
       THEN [base EXCEPT !.expected_type = expected, !.issues = <<"Cannot read file">>]
       ELSE IF expected # "None" /\ detected # "None"
       THEN IF \/ expected = "netcdf" /\ detected \in {"netcdf", "hdf5"}
               \/ expected = "hdf5" /\ detected = "hdf5"
               \/ expected = "grib" /\ detected = "grib"
            THEN [typed EXCEPT !.is_valid = TRUE]
            ELSE [typed EXCEPT !.issues = <<"Type mismatch">>]
       ELSE IF expected # "None" /\ detected = "None"
       THEN [typed EXCEPT !.issues = <<"Cannot detect valid signature">>]
       ELSE [typed EXCEPT !.is_valid = (detected # "None"),
                          !.issues = IF detected # "None" THEN <<>>
                                     ELSE <<"Unknown file type">>]

\* lines 16-93: the result dict of check_file_signature for file f
CheckFileSignatureResult(f) ==
    LET base == [exists |-> f.exists, size |-> IF f.exists THEN f.size ELSE 0,
                 detected_type |-> "None", expected_type |-> "None",
                 is_valid |-> FALSE, issues |-> <<>>]
        expected == ExpectedType(f.ext)
        detected == DetectedType(f.header)
        typed == [base EXCEPT !.expected_type = expected, !.detected_type = detected]
    IN IF ~f.exists THEN [base EXCEPT !.issues = <<"File does not exist">>]
       ELSE IF f.size < MIN_FILE_SIZE THEN [base EXCEPT !.issues = <<"File too small">>]
       ELSE IF ~f.readable
       THEN [base EXCEPT !.expected_type = expected, !.issues = <<"Cannot read file">>]
       ELSE IF detected = "html" THEN [typed EXCEPT !.issues = <<"File is HTML">>]
       ELSE IF detected = "xml" THEN [typed EXCEPT !.issues = <<"File is XML">>]
       ELSE IF expected # "None" /\ detected # "None"
       THEN IF expected = "netcdf" /\ detected \in {"netcdf", "hdf5"}
            THEN [typed EXCEPT !.is_valid = TRUE]
            ELSE IF expected = "hdf5" /\ detected = "hdf5"
            THEN [typed EXCEPT !.is_valid = TRUE]
            ELSE IF expected = "grib" /\ detected = "grib"
            THEN [typed EXCEPT !.is_valid = TRUE]
            ELSE [typed EXCEPT !.issues = <<"Type mismatch">>]
       ELSE IF expected # "None" /\ detected = "None"
       THEN [typed EXCEPT !.issues = <<"Cannot detect valid signature">>]
       ELSE [typed EXCEPT !.is_valid = (detected # "None"),
                          !.issues = IF detected # "None" THEN <<>>
                                     ELSE <<"Unknown file type">>]

\* the result dict has not been built: the call raised
NoResult == [exists |-> FALSE, size |-> 0, detected_type |-> "None",
             expected_type |-> "None", is_valid |-> FALSE, issues |-> <<>>]

\* line 20: 'exists': filepath.exists()
CheckExists ==
    /\ res = Idle
    /\ vfile # NoFile
    /\ res' = [op |-> "check_running", pc |-> "size", exists |-> vfile.exists]
    /\ UNCHANGED <<indexVars, disk, engine, files, vfile, auxVars>>

\* line 21: the condition of 'size': ... if filepath.exists() else 0
CheckSize ==
    /\ res.op = "check_running"
    /\ res.pc = "size"
    /\ res' = IF vfile.exists
              THEN [res EXCEPT !.pc = "stat"]
              ELSE [op |-> "check_running", pc |-> "rest",
                    exists |-> res.exists, size |-> 0]
    /\ UNCHANGED <<indexVars, disk, engine, files, vfile, auxVars>>

\* line 21: filepath.stat().st_size, which raises when the path is gone
CheckStat ==
    /\ res.op = "check_running"
    /\ res.pc = "stat"
    /\ res' = IF vfile.exists
              THEN [op |-> "check_running", pc |-> "rest",
                    exists |-> res.exists, size |-> vfile.size]
              ELSE [op |-> "check_file_signature", status |-> "FileNotFoundError",
                    result |-> NoResult]
    /\ UNCHANGED <<indexVars, disk, engine, files, vfile, auxVars>>

\* lines 29-93 on the values read so far; open() fails on a path that is
\* gone or not readable
CheckFileSignature ==
    /\ res.op = "check_running"
    /\ res.pc = "rest"
    /\ res' = [op |-> "check_file_signature", status |-> "ok",
               result |-> CheckFileSignatureResult(
                             [exists |-> res.exists, size |-> res.size,
                              readable |-> vfile.exists /\ vfile.readable,
                              ext |-> vfile.ext, header |-> vfile.header])]
    /\ UNCHANGED <<indexVars, disk, engine, files, vfile, auxVars>>

\* another process removes the file while the check runs
RemoveFile ==
    /\ res.op = "check_running"
    /\ vfile.exists
    /\ vfile' = [vfile EXCEPT !.exists = FALSE]
    /\ UNCHANGED <<indexVars, disk, engine, files, res, auxVars>>

\* every signature of the table
Signatures ==
    UNION {{MAGIC_BYTES[k].signatures[j] : j \in 1..Len(MAGIC_BYTES[k].signatures)} :
           k \in 1..Len(MAGIC_BYTES)}

\* the first bytes of the files under validation: every signature followed
\* by data, every signature cut one byte short, "CDF" with an unknown
\* version byte, and bytes that start no signature
Headers ==
    {sig \o <<0, 0>> : sig \in Signatures}
    \cup {SubSeq(sig, 1, Len(sig) - 1) \o <<0, 0>> : sig \in Signatures}
    \cup {<<67, 68, 70, 5, 0>>, <<0, 0, 0, 0>>}

Extensions == {".nc", ".nc4", ".hdf", ".hdf5", ".h5", ".grb", ".grb2", ".grib",
               ".grib2", ".NC", ".H5", ".GRB", ".txt", ".zip", ""}

\* file sizes around MIN_FILE_SIZE
Sizes == {0, MIN_FILE_SIZE - 1, MIN_FILE_SIZE, 10 * MIN_FILE_SIZE}

VFiles == [exists : BOOLEAN, readable : BOOLEAN, size : Sizes,
           ext : Extensions, header : Headers]

InitValidator ==
    /\ vectors = <<>>
    /\ metadata_store = <<>>
    /\ filepath_map = EmptyMap
    /\ embedding_dim = ModelDim
    /\ disk = NoDisk
    /\ engine = [up |-> FALSE]
    /\ files = <<>>
    /\ vfile \in VFiles
    /\ tree = NoTree
    /\ agent = NoAgent
    /\ writers = NoWriters
    /\ cache = NoCache
    /\ res = Idle

NextValidator ==
    CheckExists \/ CheckSize \/ CheckStat \/ CheckFileSignature \/ RemoveFile \/ Ack

\* the validator applied to one file
SpecValidator == InitValidator /\ [][NextValidator]_vars

\* the header begins with a signature the claim counts to the type
BeginsWithSignatureOf(header, type) ==
    LET netcdf == {<<67, 68, 70, 1>>, <<67, 68, 70, 2>>}
        hdf5 == {<<137, 72, 68, 70, 13, 10, 26, 10>>}
        grib == {<<71, 82, 73, 66>>}
        sigs == CASE type = "netcdf" -> netcdf \cup hdf5
                  [] type = "hdf5" -> hdf5
                  [] type = "grib" -> grib
                  [] OTHER -> {}
    IN \E sig \in sigs : StartsWith(header, sig)

\* the extension's type as the claim gives it
ClaimedType(ext) ==
    IF ext \in {".nc", ".nc4", ".NC"} THEN "netcdf"
    ELSE IF ext \in {".h5", ".hdf", ".hdf5", ".H5"} THEN "hdf5"
    ELSE IF ext \in {".grb", ".grib", ".grb2", ".grib2", ".GRB"} THEN "grib"
    ELSE "None"

\* C10: for a readable file of at least 100 bytes whose extension maps to
\* an expected type, check_file_signature reports is_valid whenever the
\* header begins with a signature of that type (.nc/.nc4: NetCDF or HDF5,
\* .h5/.hdf/.hdf5: HDF5, .grb/.grib/.grb2/.grib2: GRIB), without an issue.
C10_MatchingSignatureValid ==
    (/\ res.op = "check_file_signature"
     /\ vfile.exists /\ vfile.readable /\ vfile.size >= MIN_FILE_SIZE
     /\ ClaimedType(vfile.ext) # "None"
     /\ BeginsWithSignatureOf(vfile.header, ClaimedType(vfile.ext)))
        => (res.result.is_valid /\ res.result.issues = <<>>)

\* C11: a file whose detected type is HTML or XML is reported invalid with
\* an issue, whatever its extension.
C11_MarkupAlwaysInvalid ==
    (res.op = "check_file_signature" /\ res.status = "ok"
        /\ res.result.detected_type \in {"html", "xml"})
        => (~res.result.is_valid /\ res.result.issues # <<>>)

\* C11 witness: an HTML page of sufficient size under an extension that maps
\* to no expected type, reported invalid
C11_Witness ==
    /\ res.op = "check_file_signature"
    /\ res.result.detected_type = "html"
    /\ res.result.expected_type = "None"
    /\ vfile.ext = ".txt"
    /\ ~res.result.is_valid

\* C12: check_file_signature never raises for a path that is missing,
\* unreadable or removed while the check runs; it returns a result with
\* is_valid false and a non-empty issues list.
C12_NeverRaises ==
    res.op = "check_file_signature" =>
        /\ res.status = "ok"
        /\ (~vfile.exists \/ ~vfile.readable) =>
              (~res.result.is_valid /\ res.result.issues # <<>>)

----------------------------------------------------------------------------
(* CompanionDocFinder (src/lib/companion_finder.py) *)
(* File names are sequences of characters; a glob pattern is the sequence  *)
(* of its literal parts, split at the stars.                               *)

\* the largest number of entries next to the data file in the two directories
MaxEntries == 3

UpperCase == <<"A", "B", "C", "D", "E", "F", "G", "H", "I", "J", "K", "L", "M", "N", "O", "P", "Q", "R", "S", "T", "U", "V", "W", "X", "Y", "Z">>
LowerCase == <<"a", "b", "c", "d", "e", "f", "g", "h", "i", "j", "k", "l", "m", "n", "o", "p", "q", "r", "s", "t", "u", "v", "w", "x", "y", "z">>
Digits == {"0", "1", "2", "3", "4", "5", "6", "7", "8", "9"}

\* str.lower
LowerName(name) ==
    [i \in 1..Len(name) |->
        IF \E k \in 1..Len(UpperCase) : UpperCase[k] = name[i]
        THEN LowerCase[CHOOSE k \in 1..Len(UpperCase) : UpperCase[k] = name[i]]
        ELSE name[i]]

\* str.endswith
EndsWith(name, suffix) ==
    /\ Len(name) >= Len(suffix)
    /\ SubSeq(name, Len(name) - Len(suffix) + 1, Len(name)) = suffix

\* the tail of a name after a star: the remaining literal parts in order,
\* the last one at the end
RECURSIVE GlobRest(_, _)
GlobRest(rem, parts) ==
    IF Len(parts) = 1 THEN EndsWith(rem, parts[1])
    ELSE \E k \in 1..(Len(rem) - Len(parts[1]) + 1) :
            /\ SubSeq(rem, k, k + Len(parts[1]) - 1) = parts[1]
            /\ GlobRest(SubSeq(rem, k + Len(parts[1]), Len(rem)), Tail(parts))

\* Path.glob(pattern) on one name of the directory
Glob(name, parts) ==
    IF Len(parts) = 1 THEN name = parts[1]
    ELSE /\ StartsWith(name, parts[1])
         /\ GlobRest(SubSeq(name, Len(parts[1]) + 1, Len(name)), Tail(parts))

\* config.README_PATTERNS, CITATION_PATTERNS, DOCUMENTATION_PATTERNS
README_PATTERNS ==
    {<<<<"r", "e", "a", "d", "m", "e">>, <<>>>>,
     <<<<"R", "E", "A", "D", "M", "E">>, <<>>>>,
     <<<<"R", "e", "a", "d", "M", "e">>, <<>>>>}
CITATION_PATTERNS ==
    {<<<<"c", "i", "t", "a", "t", "i", "o", "n">>, <<>>>>,
     <<<<"C", "I", "T", "A", "T", "I", "O", "N">>, <<>>>>,
     <<<<"r", "e", "f", "e", "r", "e", "n", "c", "e", "s">>, <<>>>>,
     <<<<"d", "o", "i">>, <<>>>>,
     <<<<"p", "a", "p", "e", "r">>, <<>>>>}
DOCUMENTATION_PATTERNS ==
    {<<<<>>, <<"d", "o", "c", "u", "m", "e", "n", "t", "a", "t", "i", "o", "n">>, <<>>>>,
     <<<<>>, <<"m", "a", "n", "u", "a", "l">>, <<>>>>,
     <<<<>>, <<"g", "u", "i", "d", "e">>, <<>>>>,
     <<<<"d", "a", "t", "a", "_", "d", "i", "c", "t", "i", "o", "n", "a", "r", "y">>, <<>>>>}
\* config.SCRIPT_EXTENSIONS and config.SCIENTIFIC_DATA_EXTENSIONS
SCRIPT_EXTENSIONS ==
    {<<".", "p", "y">>,
     <<".", "r">>,
     <<".", "m">>,
     <<".", "i", "p", "y", "n", "b">>,
     <<".", "s", "h">>,
     <<".", "b", "a", "s", "h">>}
SCIENTIFIC_DATA_EXTENSIONS ==
    {<<".", "n", "c">>,
     <<".", "n", "c", "4">>,
     <<".", "h", "d", "f">>,
     <<".", "h", "d", "f", "5">>,
     <<".", "h", "5">>,
     <<".", "g", "r", "b">>,
     <<".", "g", "r", "b", "2">>,
     <<".", "g", "r", "i", "b">>,
     <<".", "g", "r", "i", "b", "2">>}

\* lines 46, 122-126, 131
project_markers ==
    {<<"s", "e", "t", "u", "p", ".", "p", "y">>,
     <<"s", "e", "t", "u", "p", ".", "s", "h">>,
     <<"r", "e", "q", "u", "i", "r", "e", "m", "e", "n", "t", "s", ".", "t", "x", "t">>,
     <<".", "g", "i", "t">>,
     <<"l", "i", "b">>,
     <<"s", "r", "c">>}
system_scripts ==
    {<<"s", "e", "t", "u", "p", ".", "s", "h">>,
     <<"s", "e", "t", "u", "p", ".", "p", "y">>,
     <<"i", "n", "s", "t", "a", "l", "l", ".", "s", "h">>,
     <<"r", "u", "n", ".", "s", "h">>,
     <<"r", "u", "n", "_", "j", "u", "p", "y", "t", "e", "r", "l", "a", "b", ".", "s", "h">>,
     <<"t", "e", "s", "t", ".", "p", "y">>,
     <<"t", "e", "s", "t", "s", ".", "p", "y">>,
     <<"_", "_", "i", "n", "i", "t", "_", "_", ".", "p", "y">>,
     <<"c", "o", "n", "f", "t", "e", "s", "t", ".", "p", "y">>}
excluded_dirs ==
    {<<"l", "i", "b">>,
     <<"s", "r", "c">>,
     <<"t", "e", "s", "t", "s">>,
     <<"d", "o", "c", "s">>,
     <<".", "g", "i", "t">>,
     <<"_", "_", "p", "y", "c", "a", "c", "h", "e", "_", "_">>}

\* the data file is /proj/<data_dir>/data.nc
DataName == <<"d", "a", "t", "a", ".", "n", "c">>
DataStem == <<"d", "a", "t", "a">>
ProjName == <<"p", "r", "o", "j">>
\* names the data directory may have
DataDirNames == {<<"d", "a", "t", "a">>, <<"d", "o", "c", "s">>}
\* names of the entries found next to the data file or one level up
EntryNames ==
    {<<"R", "E", "A", "D", "M", "E", ".", "m", "d">>,
     <<"s", "e", "t", "u", "p", ".", "p", "y">>,
     <<"0", "0", "_", "i", "n", "t", "r", "o", ".", "i", "p", "y", "n", "b">>,
     <<"0", "0", "_", "g", "u", "i", "d", "e", ".", "i", "p", "y", "n", "b">>,
     <<"p", "l", "o", "t", ".", "p", "y">>,
     <<"c", "i", "t", "a", "t", "i", "o", "n", ".", "t", "x", "t">>,
     <<"d", "a", "t", "a", "_", "v", "2", ".", "n", "c">>,
     <<"s", "r", "c">>}

Entries == [dir : {"data", "parent"}, name : EntryNames]
TheDataFile == [dir |-> "data", name |-> DataName]

\* filepath.parts
Parts(t, f) ==
    {<<"/">>, ProjName, f.name} \cup (IF f.dir = "data" THEN {t.data_dir} ELSE {})

\* lines 101-109: filepath.relative_to(data_dir) succeeds
IsLikelyCompanion(f) == f.dir = "data"

\* lines 111-135
IsSystemFile(t, f) ==
    LET name == LowerName(f.name) IN
    \/ /\ EndsWith(name, <<".", "i", "p", "y", "n", "b">>)
       /\ Len(name) >= 3
       /\ name[1] \in Digits /\ name[2] \in Digits /\ name[3] = "_"
    \/ name \in system_scripts
    \/ \E excluded \in excluded_dirs : excluded \in Parts(t, f)

\* lines 43-50
HasProjectMarkers(t) ==
    \E marker \in project_markers : [dir |-> "parent", name |-> marker] \in t.entries

SearchDirs(t, search_parent) ==
    {"data"} \cup (IF search_parent /\ ~HasProjectMarkers(t) THEN {"parent"} ELSE {})

\* search_dir.glob(pattern) over the search directories and the patterns
Found(t, dirs, patterns) ==
    {f \in t.entries \cup {TheDataFile} :
        f.dir \in dirs /\ \E pat \in patterns : Glob(f.name, pat)}

\* lines 137-154; the three re.sub calls strip a trailing version or date
\* from the stem, and the stem of the model's data file has none
FindRelatedFiles(t) ==
    Found(t, {"data"}, {<<DataStem, ext>> : ext \in SCIENTIFIC_DATA_EXTENSIONS})

\* lines 18-99: find_companions(data_filepath, search_parent, search_siblings)
FindCompanionsResult(t, search_parent, search_siblings) ==
    LET dirs == SearchDirs(t, search_parent)
        likely(S) == {f \in S : IsLikelyCompanion(f)}
    IN [readmes |-> likely(Found(t, dirs, README_PATTERNS)) \ {TheDataFile},
        citations |-> likely(Found(t, dirs, CITATION_PATTERNS)) \ {TheDataFile},
        documentation |-> likely(Found(t, dirs, DOCUMENTATION_PATTERNS)) \ {TheDataFile},
        scripts |-> {f \in likely(Found(t, dirs, {<<<<>>, ext>> : ext \in SCRIPT_EXTENSIONS})) :
                        ~IsSystemFile(t, f)} \ {TheDataFile},
        related_data |-> IF search_siblings THEN FindRelatedFiles(t) \ {TheDataFile}
                         ELSE {}]

FindCompanions ==
    /\ res = Idle
    /\ tree # NoTree
    /\ \E search_parent \in BOOLEAN, search_siblings \in BOOLEAN :
          res' = [op |-> "find_companions", search_parent |-> search_parent,
                  search_siblings |-> search_siblings,
                  companions |-> FindCompanionsResult(tree, search_parent, search_siblings)]
    /\ UNCHANGED <<indexVars, disk, engine, files, vfile, auxVars>>

Trees ==
    [layout : {"dirs"}, data_dir : DataDirNames,
     entries : {E \in SUBSET Entries : Cardinality(E) <= MaxEntries}]

InitCompanion ==
    /\ vectors = <<>>
    /\ metadata_store = <<>>
    /\ filepath_map = EmptyMap
    /\ embedding_dim = ModelDim
    /\ disk = NoDisk
    /\ engine = [up |-> FALSE]
    /\ files = <<>>
    /\ vfile = NoFile
    /\ tree \in Trees
    /\ agent = NoAgent
    /\ writers = NoWriters
    /\ cache = NoCache
    /\ res = Idle

NextCompanion == FindCompanions \/ Ack

\* the companion finder applied to one data file
SpecCompanion == InitCompanion /\ [][NextCompanion]_vars

Categories == {"readmes", "citations", "documentation", "scripts", "related_data"}

\* C15: no system file (numbered notebook, name on the denylist, file under
\* an excluded directory segment) appears in any category returned by
\* find_companions, whichever pattern its name matches.
C15_NoSystemFileReturned ==
    res.op = "find_companions" =>
        \A c \in Categories : \A f \in res.companions[c] : ~IsSystemFile(tree, f)

\* the patterns of a documentation category
PatternsOf(c) ==
    CASE c = "readmes" -> README_PATTERNS
      [] c = "citations" -> CITATION_PATTERNS
      [] c = "documentation" -> DOCUMENTATION_PATTERNS
      [] c = "scripts" -> {<<<<>>, ext>> : ext \in SCRIPT_EXTENSIONS}

\* C16: with search_parent = True and no project marker in the parent
\* directory the companions of the parent directory are returned as well;
\* with search_parent = False, or with a marker present, no file outside the
\* data file's own directory is returned in readmes, citations,
\* documentation or scripts.
C16_ParentSearch ==
    res.op = "find_companions" =>
        \A c \in Categories \ {"related_data"} :
            IF res.search_parent /\ ~HasProjectMarkers(tree)
            THEN \A f \in tree.entries :
                    (/\ f.dir = "parent"
                     /\ \E pat \in PatternsOf(c) : Glob(f.name, pat)
                     /\ ~IsSystemFile(tree, f))
                        => f \in res.companions[c]
            ELSE \A f \in res.companions[c] : f.dir = "data"

----------------------------------------------------------------------------
(* ArchiveHandler and ArchiveAwareIndexer (src/lib/archive_handler.py) *)

\* the largest number of members of an archive
MaxMembers == 2

\* config.ARCHIVE_EXTENSIONS; the endings the archive's file name may have
ARCHIVE_EXTENSIONS == {".zip", ".tar", ".tar.gz", ".tgz", ".tar.bz2"}

\* Path.suffix.lower(): the text from the last dot of the name on
Suffix(ending) ==
    CASE ending = ".tar.gz" -> ".gz"
      [] ending = ".tar.bz2" -> ".bz2"
      [] OTHER -> ending

\* lines 21-23
IsArchive(ending) == Suffix(ending) \in ARCHIVE_EXTENSIONS

\* member names, in the order sorted() gives their extracted paths
MemberNames ==
    <<<<".", ".", "/", "e", "v", "i", "l", ".", "n", "c">>,
      <<"/", "a", "b", "s", ".", "n", "c">>,
      <<"a", ".", "n", "c">>,
      <<"a", ".", ".", "b", ".", "n", "c">>,
      <<"c", ".", "g", "r", "b">>,
      <<"d", "/", ".", ".", "/", "b", ".", "n", "c">>,
      <<"d", "/", "b", ".", "h", "5">>,
      <<"n", "o", "t", "e", "s", ".", "t", "x", "t">>>>

\* "x in name" on strings
Contains(name, x) ==
    \E k \in 1..(Len(name) - Len(x) + 1) : SubSeq(name, k, k + Len(x) - 1) = x

\* lines 55-56 and 65-66: the path-traversal test
UnsafeName(name) == StartsWith(name, <<"/">>) \/ Contains(name, <<".", ".">>)

\* a faulty variant: extraction without the path-traversal test
ExtractArchiveResultNoGuard(a) ==
    LET ext == Suffix(a.ending)
        all == {a.members[i] : i \in 1..Len(a.members)}
    IN IF ext \notin {".zip", ".tar", ".tar.gz", ".tgz", ".tar.bz2"}
       THEN [status |-> "RuntimeError", extracted |-> {}]
       ELSE IF a.corrupt
       THEN [status |-> "RuntimeError", extracted |-> {}]
       ELSE [status |-> "ok", extracted |-> all]

\* lines 25-69: extract_archive on archive a; the outcome and the members
\* written to the temporary directory
ExtractArchiveResult(a) ==
    LET ext == Suffix(a.ending)
        all == {a.members[i] : i \in 1..Len(a.members)}
    IN IF ext \notin {".zip", ".tar", ".tar.gz", ".tgz", ".tar.bz2"}
       THEN [status |-> "RuntimeError", extracted |-> {}]
       ELSE IF a.corrupt
       THEN [status |-> "RuntimeError", extracted |-> {}]
       ELSE IF \E n \in all : UnsafeName(n)
       THEN [status |-> "RuntimeError", extracted |-> {}]
       ELSE [status |-> "ok", extracted |-> all]

\* lines 71-78: the data files under the extraction directory, sorted
FindDataFiles(extracted) ==
    SelectSeq(MemberNames,
              LAMBDA n : n \in extracted
                         /\ \E ext \in SCIENTIFIC_DATA_EXTENSIONS : EndsWith(n, ext))

\* lines 204-236: _index_archive; every record is given the one
\* archive_context dict, whose relative_path is overwritten for each file
IndexArchiveResult(a) ==
    LET x == ExtractArchiveResult(a)
        data_files == FindDataFiles(x.extracted)
        last == IF data_files = <<>> THEN <<>> ELSE data_files[Len(data_files)]
    IN IF x.status # "ok"
       THEN [attempted |-> TRUE, extracted |-> x.extracted,
             indexed_files |-> <<>>, errors |-> 1, archives_processed |-> 0]
       ELSE [attempted |-> TRUE, extracted |-> x.extracted,
             indexed_files |-> [i \in 1..Len(data_files) |->
                                  [filepath |-> data_files[i], from_archive |-> TRUE,
                                   error |-> FALSE, relative_path |-> last]],
             errors |-> 0, archives_processed |-> 1]

\* lines 158-176 and 238-258: index_path on the archive file itself or on
\* the directory that holds it
IndexArchivePathResult(a, as_directory, extract_archives) ==
    IF as_directory
    THEN IF extract_archives THEN IndexArchiveResult(a)
         ELSE [attempted |-> FALSE, extracted |-> {}, indexed_files |-> <<>>,
               errors |-> 0, archives_processed |-> 0]
    ELSE IF IsArchive(a.ending) /\ extract_archives THEN IndexArchiveResult(a)
    ELSE \* lines 171, 178-202: the archive is handed to the metadata extractor,
         \* which returns a record with an 'error' key for its extension
         [attempted |-> FALSE, extracted |-> {},
          indexed_files |-> <<[filepath |-> <<>>, from_archive |-> FALSE,
                               error |-> TRUE, relative_path |-> <<>>]>>,
          errors |-> 0, archives_processed |-> 0]

IndexArchivePath ==
    /\ res = Idle
    /\ tree # NoTree
    /\ \E as_directory \in BOOLEAN, extract_archives \in BOOLEAN :
          LET r == IndexArchivePathResult(tree, as_directory, extract_archives)
          IN /\ res' = [op |-> "index_path", as_directory |-> as_directory,
                        extract_archives |-> extract_archives,
                        attempted |-> r.attempted,
                        indexed_files |-> r.indexed_files, errors |-> r.errors,
                        archives_processed |-> r.archives_processed]
             \* extractall writes the members; cleanup removes the directory
             /\ tree' = [tree EXCEPT !.written = r.extracted, !.temp_dir = FALSE]
    /\ UNCHANGED <<indexVars, disk, engine, files, vfile, agent, writers, cache>>

Archives ==
    [layout : {"archive"}, ending : ARCHIVE_EXTENSIONS, corrupt : BOOLEAN,
     members : SeqsUpTo({MemberNames[i] : i \in 1..Len(MemberNames)}, MaxMembers),
     written : {{}}, temp_dir : {FALSE}]

InitArchive ==
    /\ vectors = <<>>
    /\ metadata_store = <<>>
    /\ filepath_map = EmptyMap
    /\ embedding_dim = ModelDim
    /\ disk = NoDisk
    /\ engine = [up |-> FALSE]
    /\ files = <<>>
    /\ vfile = NoFile
    /\ tree \in Archives
    /\ agent = NoAgent
    /\ writers = NoWriters
    /\ cache = NoCache
    /\ res = Idle

NextArchiveIndexer == IndexArchivePath \/ Ack

\* the archive-aware indexer applied to one archive
SpecArchive == InitArchive /\ [][NextArchiveIndexer]_vars

\* ".." is a component of the member's path
HasDotDotComponent(name) ==
    \/ name = <<".", ".">>
    \/ StartsWith(name, <<".", ".", "/">>)
    \/ EndsWith(name, <<"/", ".", ".">>)
    \/ Contains(name, <<"/", ".", ".", "/">>)

\* the archive holds an entry with an absolute path or a ".." component
TraversalArchive(a) ==
    \E i \in 1..Len(a.members) :
        StartsWith(a.members[i], <<"/">>) \/ HasDotDotComponent(a.members[i])

----------------------------------------------------------------------------
(***************************************************************************)
(* The discovery agent: DiscoveryAgent.discover_companions runs            *)
(* BaseAgent.reason_and_act, a loop of at most max_iterations calls to the *)
(* language model (OllamaClient.generate).  One candidate document stands  *)
(* beside the data file; it is described by the number of times its text   *)
(* holds the data file's stem and the data file's full name.               *)
(***************************************************************************)
max_iterations == 10

MaxMentions == 5

Candidates ==
    {[stem |-> s, filename |-> f] : s \in 0..MaxMentions, f \in 0..MaxMentions}

\* the full name holds the stem, so it cannot occur more often than the stem
CandidateDocs == {c \in Candidates : c.filename <= c.stem}

ToolKeys ==
    {"find_candidate_documents", "preview_document",
     "check_mentions:stem", "check_mentions:stem,filename"}

NoDecision == [decision |-> "none", confidence |-> 0, reasoning |-> "none"]

InitialPrompt == [kind |-> "initial", key |-> "none", total_mentions |-> 0]

\* what the HTTP call to the model can end as: a text that asks for a tool,
\* a text that states a decision, any other text, a timeout, another
\* request failure
Replies ==
    {[kind |-> "text", marker |-> "USE_TOOL", well_formed |-> w, key |-> k,
      decision |-> "none", confidence |-> 0] :
          w \in BOOLEAN, k \in ToolKeys}
    \cup
    {[kind |-> "text", marker |-> "DECISION", well_formed |-> w, key |-> "none",
      decision |-> d, confidence |-> c] :
          w \in BOOLEAN, d \in {"RELEVANT", "NOT_RELEVANT", "UNCERTAIN"},
          c \in {30, 80, 95}}
    \cup
    {[kind |-> k, marker |-> "none", well_formed |-> TRUE, key |-> "none",
      decision |-> "none", confidence |-> 0] :
          k \in {"text", "timeout", "failed"}}

\* OllamaClient.generate: a timeout or a request failure is returned as a
\* text that starts with "ERROR:", never raised
generate(reply) ==
    IF reply.kind = "timeout"
    THEN [reply EXCEPT !.kind = "text", !.marker = "none"]
    ELSE IF reply.kind = "failed"
    THEN [reply EXCEPT !.kind = "text", !.marker = "none"]
    ELSE reply

\* BaseAgent.parse_llm_response: a text with USE_TOOL: is a tool call, else a
\* text with DECISION: is a decision; a text whose lines do not parse, and
\* every other text, is a thought
parse_llm_response(response) ==
    IF response.marker = "USE_TOOL" /\ response.well_formed
    THEN [type |-> "tool_call", key |-> response.key,
          decision |-> "none", confidence |-> 0]
    ELSE IF response.marker = "DECISION" /\ response.well_formed
    THEN [type |-> "decision", key |-> "none",
          decision |-> response.decision, confidence |-> response.confidence]
    ELSE [type |-> "thought", key |-> "none",
          decision |-> "none", confidence |-> 0]

\* the check_mentions tool: the occurrences of every search term, summed
check_mentions(c, key) ==
    IF key = "check_mentions:stem" THEN c.stem
    ELSE IF key = "check_mentions:stem,filename" THEN c.stem + c.filename
    ELSE 0

\* DiscoveryAgent.execute_tool: the tool's result, kept in tool_results under
\* the tool's name and parameters; the prompt of the next iteration quotes it
execute_tool(c, key) ==
    [kind |-> "tool", key |-> key, total_mentions |-> check_mentions(c, key)]

\* the dictionary discover_companions returns for the decision of the loop
DiscoverCompanionsResult(decision, tool_results, thoughts) ==
    [op |-> "discover_companions", status |-> "ok", success |-> TRUE,
     discovered |-> [relevant_companions |-> {}, uncertain |-> {},
                     not_relevant |-> {},
                     total_examined |->
                         IF "preview_document" \in tool_results THEN 1 ELSE 0],
     confidence |-> decision.confidence,
     reasoning |-> decision.reasoning,
     thoughts |-> thoughts]

\* discover_companions up to the first iteration of reason_and_act
DiscoverCompanions ==
    /\ res = Idle
    /\ agent.run = "idle"
    /\ agent' = [agent EXCEPT !.run = "running", !.step = 0, !.failed = 0,
                              !.tool_results = {}, !.prompt = InitialPrompt,
                              !.decision = NoDecision]
    /\ UNCHANGED <<indexVars, disk, engine, files, vfile, tree, writers, cache, res>>

\* one iteration in which the model asks for a tool
ThinkToolCall ==
    /\ agent.run = "running"
    /\ agent.step < max_iterations
    /\ \E reply \in Replies :
          LET parsed == parse_llm_response(generate(reply))
          IN /\ parsed.type = "tool_call"
             /\ agent' = [agent EXCEPT
                    !.step = @ + 1,
                    !.tool_results = @ \cup {parsed.key},
                    !.prompt = execute_tool(agent.candidate, parsed.key)]
    /\ UNCHANGED <<indexVars, disk, engine, files, vfile, tree, writers, cache, res>>

\* one iteration in which the model states its decision: reason_and_act
\* returns it and discover_companions returns
ThinkDecision ==
    /\ agent.run = "running"
    /\ agent.step < max_iterations
    /\ \E reply \in Replies :
          LET parsed == parse_llm_response(generate(reply))
              decision == [decision |-> parsed.decision,
                           confidence |-> parsed.confidence,
                           reasoning |-> "model"]
          IN /\ parsed.type = "decision"
             /\ agent' = [agent EXCEPT !.run = "idle", !.step = @ + 1,
                                       !.decision = decision]
             /\ res' = DiscoverCompanionsResult(decision, agent.tool_results,
                                                agent.step + 1)
    /\ UNCHANGED <<indexVars, disk, engine, files, vfile, tree, writers, cache>>

\* one iteration in which the answer is neither: free text, a text that does
\* not parse, or the "ERROR:" text of a failed request
ThinkThought ==
    /\ agent.run = "running"
    /\ agent.step < max_iterations
    /\ \E reply \in Replies :
          LET parsed == parse_llm_response(generate(reply))
          IN /\ parsed.type = "thought"
             /\ agent' = [agent EXCEPT
                    !.step = @ + 1,
                    !.failed = IF reply.kind = "text" THEN @ ELSE @ + 1,
                    !.prompt = [kind |-> "continue", key |-> "none",
                                total_mentions |-> 0]]
    /\ UNCHANGED <<indexVars, disk, engine, files, vfile, tree, writers, cache, res>>

\* the loop ends without a decision
IterationLimit ==
    /\ agent.run = "running"
    /\ agent.step >= max_iterations
    /\ LET decision == [decision |-> "INCOMPLETE", confidence |-> 30,
                        reasoning |-> "Analysis incomplete - reached iteration limit"]
       IN /\ agent' = [agent EXCEPT !.run = "idle", !.decision = decision]
          /\ res' = DiscoverCompanionsResult(decision, agent.tool_results,
                                             agent.step)
    /\ UNCHANGED <<indexVars, disk, engine, files, vfile, tree, writers, cache>>

InitAgent ==
    /\ vectors = <<>>
    /\ metadata_store = <<>>
    /\ filepath_map = EmptyMap
    /\ embedding_dim = ModelDim
    /\ disk = NoDisk
    /\ engine = [up |-> FALSE]
    /\ files = <<>>
    /\ vfile = NoFile
    /\ tree = NoTree
    /\ agent \in {[run |-> "idle", candidate |-> c, step |-> 0, failed |-> 0,
                   tool_results |-> {}, prompt |-> InitialPrompt,
                   decision |-> NoDecision] : c \in CandidateDocs}
    /\ writers = NoWriters
    /\ cache = NoCache
    /\ res = Idle

NextAgent ==
    DiscoverCompanions \/ ThinkToolCall \/ ThinkDecision \/ ThinkThought
        \/ IterationLimit \/ Ack

SpecAgent == InitAgent /\ [][NextAgent]_vars

(***************************************************************************)
(* Concurrent writers: several threads call VectorIndex.add on one index.  *)
(* The code takes no lock, so the statements of add interleave: the read   *)
(* of start_idx, index.add, metadata_store.extend, and every round of the  *)
(* filepath loop.  Each of these is taken as one step; index.add is not    *)
(* split further.  writers.overlapped records whether an add ever began    *)
(* while another add was in flight, that is, whether the callers failed to *)
(* serialize their calls through a single writer.                          *)
(***************************************************************************)
WriterIds == {1, 2}

IdleWriter ==
    [pc |-> "idle", embeddings |-> <<>>, metadata |-> <<>>,
     start_idx |-> 0, i |-> 0]

\* the records writer t adds; their text tells the writers' rows apart
WriterRecords(t) ==
    {[filepath |-> p, text |-> t - 1] : p \in Paths \cup {NoPath}}

WriterBatches(t) == SeqsUpTo(WriterRecords(t), MaxBatch) \ {<<>>}

\* rows a writer has announced and not yet handed to index.add
PendingRows(t) ==
    IF writers.threads[t].pc = "index_add"
    THEN Len(writers.threads[t].embeddings) ELSE 0

\* a faulty variant: a 1-based start ordinal
StartIdxOneBased(vs) == Len(vs) + 1

\* start_idx = self.index.ntotal
StartIdx(vs) == Len(vs)

\* add up to the read of start_idx: the size check passes, the embeddings
\* are normalized, the start ordinal is read
BeginAdd ==
    \E t \in WriterIds :
      /\ writers.threads[t].pc = "idle"
      /\ \E metas \in WriterBatches(t), mag \in Mags :
            LET embs == BatchRows(metas, Len(metas), mag, embedding_dim)
                u == CHOOSE w \in WriterIds : w # t
            IN /\ Len(vectors) + PendingRows(u) + Len(embs) <= MaxVectors
               /\ writers' = [writers EXCEPT
                      !.overlapped = @ \/ writers.threads[u].pc # "idle",
                      !.threads[t] =
                          [pc |-> "index_add",
                           embeddings |->
                               [k \in 1..Len(embs) |-> Row(NormalizeL2(embs[k]))],
                           metadata |-> metas,
                           start_idx |-> StartIdx(vectors),
                           i |-> 0]]
      /\ UNCHANGED <<indexVars, disk, engine, files, vfile, tree, agent, cache, res>>

\* self.index.add(embeddings)
IndexAdd ==
    \E t \in WriterIds :
      /\ writers.threads[t].pc = "index_add"
      /\ vectors' = vectors \o writers.threads[t].embeddings
      /\ writers' = [writers EXCEPT !.threads[t].pc = "extend"]
      /\ UNCHANGED <<metadata_store, filepath_map, embedding_dim, disk, engine,
                     files, vfile, tree, agent, cache, res>>

\* self.metadata_store.extend(metadata)
ExtendMetadata ==
    \E t \in WriterIds :
      /\ writers.threads[t].pc = "extend"
      /\ metadata_store' = metadata_store \o writers.threads[t].metadata
      /\ writers' = [writers EXCEPT !.threads[t].pc = "map", !.threads[t].i = 1]
      /\ UNCHANGED <<vectors, filepath_map, embedding_dim, disk, engine,
                     files, vfile, tree, agent, cache, res>>

\* one round of the filepath loop; add returns after the last round
MapStep ==
    \E t \in WriterIds :
      LET w == writers.threads[t]
          fp == w.metadata[w.i].filepath
      IN /\ w.pc = "map"
         /\ filepath_map' =
               IF fp # NoPath
               THEN MapAppend(filepath_map, fp, w.start_idx + w.i - 1)
               ELSE filepath_map
         /\ writers' = [writers EXCEPT !.threads[t] =
               IF w.i = Len(w.metadata) THEN IdleWriter
               ELSE [w EXCEPT !.i = @ + 1]]
         /\ UNCHANGED <<vectors, metadata_store, embedding_dim, disk, engine,
                        files, vfile, tree, agent, cache, res>>

InitWriters ==
    /\ vectors = <<>>
    /\ metadata_store = <<>>
    /\ filepath_map = EmptyMap
    /\ embedding_dim = ModelDim
    /\ disk = NoDisk
    /\ engine = [up |-> FALSE]
    /\ files = <<>>
    /\ vfile = NoFile
    /\ tree = NoTree
    /\ agent = NoAgent
    /\ writers = [overlapped |-> FALSE,
                  threads |-> [t \in WriterIds |-> IdleWriter]]
    /\ cache = NoCache
    /\ res = Idle

NextWriters == BeginAdd \/ IndexAdd \/ ExtendMetadata \/ MapStep

SpecWriters == InitWriters /\ [][NextWriters]_vars

(***************************************************************************)
(* CachedEmbeddingGenerator.encode.  The cache maps a text to the          *)
(* embedding stored for it.  The merge of cached and new rows is done with *)
(* numpy index assignment: result[cache_indices] = np.array(embeddings).   *)
(* With no cached text np.array([]) has shape (0,), which numpy's          *)
(* broadcasting rules do not allow to be assigned to a selection of shape  *)
(* (0, dim): the assignment raises ValueError.                             *)
(***************************************************************************)
\* positions of texts, from position i on, whose text is (hit) or is not
\* (~hit) a key of the cache
RECURSIVE CachePositions(_, _, _, _)
CachePositions(c, texts, i, hit) ==
    IF i > Len(texts) THEN <<>>
    ELSE IF (texts[i] \in DOMAIN c) = hit
    THEN <<i>> \o CachePositions(c, texts, i + 1, hit)
    ELSE CachePositions(c, texts, i + 1, hit)

\* self.cache[text] = embedding, for every text that was encoded
UpdateCache(c, texts, dim) ==
    LET new == {texts[i] : i \in 1..Len(texts)} \ DOMAIN c
    IN [t \in DOMAIN c \cup new |->
           IF t \in DOMAIN c THEN c[t] ELSE Encode(t, dim)]

\* result[cache_indices] = embeddings; result[non_cache_indices] = new_embeddings:
\* the k-th cached embedding goes to row cache_indices[k], the k-th new
\* embedding to row non_cache_indices[k]
MergeResults(c, texts, dim, cache_indices, non_cache_indices) ==
    LET embeddings == [k \in 1..Len(cache_indices) |-> c[texts[cache_indices[k]]]]
        new_embeddings ==
            [k \in 1..Len(non_cache_indices) |->
                Encode(texts[non_cache_indices[k]], dim)]
    IN [i \in 1..Len(texts) |->
           IF \E k \in 1..Len(cache_indices) : cache_indices[k] = i
           THEN embeddings[CHOOSE k \in 1..Len(cache_indices) :
                               cache_indices[k] = i]
           ELSE new_embeddings[CHOOSE k \in 1..Len(non_cache_indices) :
                                   non_cache_indices[k] = i]]

CachedEncodeResult(c, texts, dim, use_cache) ==
    LET cache_indices == CachePositions(c, texts, 1, TRUE)
        non_cache_indices == CachePositions(c, texts, 1, FALSE)
    IN IF ~use_cache
       THEN [status |-> "ok", cache |-> c,
             result |-> [i \in 1..Len(texts) |-> Encode(texts[i], dim)]]
       ELSE IF non_cache_indices = <<>>
       THEN [status |-> "ok", cache |-> c,
             result |-> [i \in 1..Len(texts) |-> c[texts[i]]]]
       ELSE IF cache_indices = <<>>
       THEN \* the cache was updated before the merge raised
            [status |-> "ValueError", cache |-> UpdateCache(c, texts, dim),
             result |-> <<>>]
       ELSE [status |-> "ok", cache |-> UpdateCache(c, texts, dim),
             result |-> MergeResults(c, texts, dim, cache_indices,
                                     non_cache_indices)]

CachedEncode ==
    /\ res = Idle
    /\ \E texts \in SeqsUpTo(Dirs, MaxBatch) \ {<<>>}, use_cache \in BOOLEAN :
          LET r == CachedEncodeResult(cache, texts, embedding_dim, use_cache)
          IN /\ cache' = r.cache
             /\ res' = [op |-> "encode", status |-> r.status, texts |-> texts,
                        use_cache |-> use_cache, before |-> cache,
                        result |-> r.result]
    /\ UNCHANGED <<indexVars, disk, engine, files, vfile, tree, agent, writers>>

\* clear_cache
ClearCache ==
    /\ res = Idle
    /\ cache' = <<>>
    /\ res' = [op |-> "clear_cache", status |-> "ok"]
    /\ UNCHANGED <<indexVars, disk, engine, files, vfile, tree, agent, writers>>

\* the cache a generator starts with: empty, or the pickled cache of an
\* earlier run of the same model
InitEmbedding ==
    /\ vectors = <<>>
    /\ metadata_store = <<>>
    /\ filepath_map = EmptyMap
    /\ embedding_dim = ModelDim
    /\ disk = NoDisk
    /\ engine = [up |-> FALSE]
    /\ files = <<>>
    /\ vfile = NoFile
    /\ tree = NoTree
    /\ agent = NoAgent
    /\ writers = NoWriters
    /\ cache \in {[t \in S |-> Encode(t, ModelDim)] : S \in SUBSET Dirs}
    /\ res = Idle

NextEmbedding == CachedEncode \/ ClearCache \/ Ack

SpecEmbedding == InitEmbedding /\ [][NextEmbedding]_vars

(***************************************************************************)
(* Path spellings.  index_file stores str(Path(filepath)) as the record's  *)
(* filepath (search_engine.py line 48, metadata_extractors.py line 23).    *)
(* A path is a sequence of components; Path() drops "." components and     *)
(* keeps everything else as the caller spelled it.  The process runs in    *)
(* the directory /d, which holds a.nc and b.nc.                            *)
(***************************************************************************)
Cwd == <<"/", "d">>

\* spellings a caller may hand to index_file
Spellings ==
    { <<"a.nc">>, <<".", "a.nc">>, <<"/", "d", "a.nc">>,
      <<"/", "d", "..", "d", "a.nc">>, <<"b.nc">>, <<"/", "d", "b.nc">> }

\* Path(filepath): "." components are dropped
RECURSIVE PurePath(_)
PurePath(parts) ==
    IF parts = <<>> THEN <<>>
    ELSE IF Head(parts) = "." THEN PurePath(Tail(parts))
    ELSE <<Head(parts)>> \o PurePath(Tail(parts))

\* str(path)
Str(parts) ==
    CASE parts = <<"a.nc">> -> "a.nc"
      [] parts = <<"b.nc">> -> "b.nc"
      [] parts = <<"/", "d", "a.nc">> -> "/d/a.nc"
      [] parts = <<"/", "d", "b.nc">> -> "/d/b.nc"
      [] parts = <<"/", "d", "..", "d", "a.nc">> -> "/d/../d/a.nc"
      [] OTHER -> "?"

\* the searchable text of the file a path names, as an embedding direction
TextOfName(name) == IF name = "a.nc" THEN 0 ELSE 1

\* lines 44-92 for a valid file given under this spelling
IndexFileAsResult(vs, ms, fm, dim, spelling) ==
    LET filepath == PurePath(spelling)
        metadata == [filepath |-> Str(filepath),
                     text |-> TextOfName(filepath[Len(filepath)])]
        a == AddResult(vs, ms, fm, dim,
                       <<Encode(metadata.text, ModelDim)>>, <<metadata>>)
    IN [status |-> IF a.status = "ok" THEN "success" ELSE "raised",
        filepath |-> Str(filepath),
        vectors |-> a.vectors, metadata_store |-> a.metadata_store,
        filepath_map |-> a.filepath_map]

IndexFileAs ==
    /\ res = Idle
    /\ engine.up
    /\ Len(vectors) < MaxVectors
    /\ \E spelling \in Spellings :
          LET r == IndexFileAsResult(vectors, metadata_store, filepath_map,
                                     embedding_dim, spelling)
          IN /\ vectors' = r.vectors
             /\ metadata_store' = r.metadata_store
             /\ filepath_map' = r.filepath_map
             /\ res' = [op |-> "index_file", status |-> r.status,
                        filepath |-> r.filepath]
    /\ UNCHANGED <<embedding_dim, disk, engine, files, vfile, auxVars>>

SpellingSearch ==
    /\ res = Idle
    /\ \E text \in QueryDirs, top_k \in TopKs :
          EngineSearch(text, top_k, [none |-> TRUE, v |-> 0])

InitSpelling ==
    /\ vectors = <<>>
    /\ metadata_store = <<>>
    /\ filepath_map = EmptyMap
    /\ embedding_dim = ModelDim
    /\ disk = NoDisk
    /\ engine = [up |-> TRUE]
    /\ files = <<>>
    /\ vfile = NoFile
    /\ tree = NoTree
    /\ agent = NoAgent
    /\ writers = NoWriters
    /\ cache = NoCache
    /\ res = Idle

NextSpelling == IndexFileAs \/ SpellingSearch \/ Ack

SpecSpelling == InitSpelling /\ [][NextSpelling]_vars

(***************************************************************************)
(* index_directory over a directory that holds one archive, step by step.  *)
(* _index_archive extracts into a temporary directory inside               *)
(* "with ArchiveHandler() as handler", runs _index_file on every data file *)
(* found there, and leaves the with block, whose __exit__ removes the      *)
(* directory.  index_directory then walks the returned records: it reads   *)
(* the companion documents named in each record, embeds and adds.          *)
(* tree.members[i] tells whether data file i has a companion document      *)
(* beside it in the archive.                                               *)
(***************************************************************************)
\* the path of data file i under the temporary directory of the given call
TempPath(call, i) ==
    CASE call = 1 /\ i = 1 -> "tmp1/a.nc"
      [] call = 1 /\ i = 2 -> "tmp1/b.nc"
      [] call = 1 /\ i = 3 -> "tmp1/c.nc"
      [] call = 2 /\ i = 1 -> "tmp2/a.nc"
      [] call = 2 /\ i = 2 -> "tmp2/b.nc"
      [] call = 2 /\ i = 3 -> "tmp2/c.nc"
      [] OTHER -> "tmp3/a.nc"

Extractions ==
    {[layout |-> "extraction", members |-> m, include_companions |-> FALSE,
      phase |-> "idle", calls |-> 0, temp_dir |-> FALSE, i |-> 0,
      indexed_files |-> <<>>, lost |-> 0] :
        m \in SeqsUpTo(BOOLEAN, MaxMembers) \ {<<>>}}

\* search_engine.py lines 100-109 and archive_handler.py lines 206-218:
\* the archive is extracted into a fresh temporary directory
ExtractArchive ==
    /\ res = Idle
    /\ engine.up
    /\ tree.phase = "idle"
    /\ Len(vectors) + Len(tree.members) <= MaxVectors
    /\ \E include_companions \in BOOLEAN :
          tree' = [tree EXCEPT !.include_companions = include_companions,
                               !.phase = "indexing", !.calls = @ + 1,
                               !.temp_dir = TRUE, !.i = 1,
                               !.indexed_files = <<>>, !.lost = 0]
    /\ UNCHANGED <<indexVars, disk, engine, files, vfile, agent, writers,
                   cache, res>>

\* archive_handler.py lines 178-196: _index_file reads the data file and
\* lists the companion documents beside it
IndexArchiveFile ==
    /\ tree.phase = "indexing"
    /\ tree.i <= Len(tree.members)
    /\ tree' = [tree EXCEPT
           !.i = @ + 1,
           !.indexed_files = Append(@,
               [filepath |-> TempPath(tree.calls, tree.i),
                data_read |-> tree.temp_dir,
                companions |-> tree.include_companions /\ tree.members[tree.i]])]
    /\ UNCHANGED <<indexVars, disk, engine, files, vfile, agent, writers,
                   cache, res>>

\* archive_handler.py lines 136-147: leaving the with block removes the
\* temporary directory
Cleanup ==
    /\ tree.phase = "indexing"
    /\ tree.i > Len(tree.members)
    /\ tree' = [tree EXCEPT !.phase = "embedding", !.temp_dir = FALSE, !.i = 1]
    /\ UNCHANGED <<indexVars, disk, engine, files, vfile, agent, writers,
                   cache, res>>

\* search_engine.py lines 119-151 for one record: the companion documents
\* are read (a document that is gone is skipped silently), the text is
\* embedded and the record added; the text of a record with its companion
\* summary differs from the text without it
EmbedRecord ==
    /\ tree.phase = "embedding"
    /\ tree.i <= Len(tree.indexed_files)
    /\ LET rec == tree.indexed_files[tree.i]
           companion_read == rec.companions /\ tree.temp_dir
           text == IF companion_read THEN 1 ELSE 0
           a == AddResult(vectors, metadata_store, filepath_map, embedding_dim,
                          <<Encode(text, ModelDim)>>,
                          <<[filepath |-> rec.filepath, text |-> text]>>)
       IN /\ vectors' = a.vectors
          /\ metadata_store' = a.metadata_store
          /\ filepath_map' = a.filepath_map
          /\ tree' = [tree EXCEPT
                 !.i = @ + 1,
                 !.lost = IF rec.companions /\ ~companion_read THEN @ + 1 ELSE @]
    /\ UNCHANGED <<embedding_dim, disk, engine, files, vfile, agent, writers,
                   cache, res>>

\* search_engine.py lines 153-159
ReturnIndexDirectory ==
    /\ tree.phase = "embedding"
    /\ tree.i > Len(tree.indexed_files)
    /\ tree' = [tree EXCEPT !.phase = "idle"]
    /\ res' = [op |-> "index_directory", status |-> "ok",
               indexed |-> Len(tree.indexed_files), errors |-> 0,
               archives_processed |-> 1]
    /\ UNCHANGED <<indexVars, disk, engine, files, vfile, agent, writers, cache>>

InitExtraction ==
    /\ vectors = <<>>
    /\ metadata_store = <<>>
    /\ filepath_map = EmptyMap
    /\ embedding_dim = ModelDim
    /\ disk = NoDisk
    /\ engine = [up |-> TRUE]
    /\ files = <<>>
    /\ vfile = NoFile
    /\ tree \in Extractions
    /\ agent = NoAgent
    /\ writers = NoWriters
    /\ cache = NoCache
    /\ res = Idle

NextExtraction ==
    ExtractArchive \/ IndexArchiveFile \/ Cleanup \/ EmbedRecord
        \/ ReturnIndexDirectory \/ Ack

SpecExtraction == InitExtraction /\ [][NextExtraction]_vars

\* "; ".join(issues)
RECURSIVE Join(_)
Join(issues) ==
    IF issues = <<>> THEN <<>>
    ELSE IF Len(issues) = 1 THEN issues
    ELSE <<issues[1], "; ">> \o Join(Tail(issues))

\* a faulty variant: the invalid verdict without the issues
quick_validate_bare(result) ==
    IF result.is_valid
    THEN [is_valid |-> TRUE, message |-> <<"Valid ", result.detected_type, " file">>]
    ELSE [is_valid |-> FALSE, message |-> <<"Invalid: ">>]

\* file_validator.py lines 175-184: the (is_valid, message) pair made of
\* the result of check_file_signature
quick_validate(result) ==
    IF result.is_valid
    THEN [is_valid |-> TRUE, message |-> <<"Valid ", result.detected_type, " file">>]
    ELSE [is_valid |-> FALSE, message |-> <<"Invalid: ">> \o Join(result.issues)]

----------------------------------------------------------------------------
(***************************************************************************)
(* The reasoning loops: BaseAgent.reason_and_act and its overrides in      *)
(* QualityAssessmentAgent and MetadataEnrichmentAgent, run from their      *)
(* entry points (assess_file sets current_filepath and empties             *)
(* tool_results, enrich_file does the same).  A response of the model is   *)
(* described by what the parsers look at.                                  *)
(***************************************************************************)
Variants == {"base", "quality", "enrichment"}

\* the tools registered with the agent
Tools(variant) ==
    IF variant = "quality" THEN {"check_signature", "get_file_info"}
    ELSE IF variant = "enrichment" THEN {"get_structure", "domain_knowledge_lookup"}
    ELSE {"tool"}

\* the texts after REASONING: in the model's decisions
Reasonings ==
    {<<"i", "n", "v", "a", "l", "i", "d">>,
     <<"I", "n", "v", "a", "l", "i", "d">>,
     <<"v", "a", "l", "i", "d">>,
     <<"V", "A", "L", "I", "D">>,
     <<"o", "d", "d">>}

\* what think() can return: a text with USE_TOOL: whose PARAMS: line holds a
\* JSON object or another JSON value, a text with DECISION:, any other text
\* (a plain thought, or the error string generate returns for a failed
\* request); well_formed: the lines the parser takes apart are all there and
\* parse; enriched: the text holds the word "enriched" in some case
LoopReplies(variant) ==
    {[marker |-> "USE_TOOL", well_formed |-> w, tool_name |-> t, params |-> p,
      tool_raises |-> x, enriched |-> e, decision |-> "none", confidence |-> 0,
      reasoning |-> <<>>] :
          w \in BOOLEAN, t \in Tools(variant) \cup {"no_such_tool"},
          p \in {"object", "not_object"}, x \in BOOLEAN, e \in BOOLEAN}
    \cup
    {[marker |-> "DECISION", well_formed |-> w, tool_name |-> "none",
      params |-> "none", tool_raises |-> FALSE, enriched |-> (d = "ENRICHED"),
      decision |-> d, confidence |-> c, reasoning |-> r] :
          w \in BOOLEAN,
          d \in {"ACCEPT", "REJECT", "MANUAL_REVIEW", "CORRUPT", "ENRICHED"},
          c \in {30, 95}, r \in Reasonings}
    \cup
    {[marker |-> "none", well_formed |-> TRUE, tool_name |-> "none",
      params |-> "none", tool_raises |-> FALSE, enriched |-> e,
      decision |-> "none", confidence |-> 0, reasoning |-> <<>>] :
          e \in BOOLEAN}

\* agent_framework.py lines 116-160 on the responses of the loops
base_parse_llm_response(response) ==
    IF response.marker = "USE_TOOL" /\ response.well_formed
    THEN [type |-> "tool_call", tool_name |-> response.tool_name,
          params |-> response.params, decision |-> "none", confidence |-> 0,
          reasoning |-> <<>>]
    ELSE IF response.marker = "DECISION" /\ response.well_formed
    THEN [type |-> "decision", tool_name |-> "none", params |-> "none",
          decision |-> response.decision, confidence |-> response.confidence,
          reasoning |-> response.reasoning]
    ELSE [type |-> "thought", tool_name |-> "none", params |-> "none",
          decision |-> "none", confidence |-> 0, reasoning |-> <<>>]

\* enrichment_agent.py lines 194-219: a text that holds "enriched" is the
\* decision ENRICHED; the confidence defaults to 0.7
enrichment_parse_llm_response(response) ==
    LET result == base_parse_llm_response(response)
    IN IF response.enriched
       THEN [result EXCEPT !.type = "decision", !.decision = "ENRICHED",
                           !.confidence = IF response.marker = "DECISION"
                                             /\ response.well_formed
                                          THEN response.confidence ELSE 70,
                           !.reasoning = response.reasoning]
       ELSE result

LoopParse(variant, response) ==
    IF variant = "enrichment" THEN enrichment_parse_llm_response(response)
    ELSE base_parse_llm_response(response)

\* agent_framework.py lines 162-172: every failure is returned as a text
base_execute_tool(tool_results, tool_name, params, tool_raises) ==
    [status |-> "ok", tool_results |-> tool_results]

\* quality_agent.py lines 122-150 and enrichment_agent.py lines 158-192: the
\* tests on params and params.items() stand outside the try, and fail on a
\* JSON value that is not an object; the result of a tool that ran is kept
overriding_execute_tool(variant, tool_results, tool_name, params, tool_raises) ==
    IF tool_name \notin Tools(variant)
    THEN [status |-> "ok", tool_results |-> tool_results]
    ELSE IF params = "not_object"
    THEN [status |-> "TypeError", tool_results |-> tool_results]
    ELSE IF variant = "enrichment" /\ tool_name \in tool_results
    THEN [status |-> "ok", tool_results |-> tool_results]
    ELSE IF tool_raises
    THEN [status |-> "ok", tool_results |-> tool_results]
    ELSE [status |-> "ok", tool_results |-> tool_results \cup {tool_name}]

\* the tool call of one iteration: quality_agent.py lines 189-200 take a
\* result already held without calling execute_tool
LoopExecuteTool(variant, tool_results, parsed, tool_raises) ==
    IF variant = "base"
    THEN base_execute_tool(tool_results, parsed.tool_name, parsed.params, tool_raises)
    ELSE IF variant = "quality" /\ parsed.tool_name \in tool_results
    THEN [status |-> "ok", tool_results |-> tool_results]
    ELSE overriding_execute_tool(variant, tool_results, parsed.tool_name,
                                 parsed.params, tool_raises)

\* what each loop returns when it ends without a decision:
\* agent_framework.py lines 248-254, quality_agent.py lines 253-279,
\* enrichment_agent.py lines 309-319
LimitDecision(variant, tool_results, sig_valid) ==
    IF variant = "base"
    THEN [decision |-> "INCOMPLETE", confidence |-> 30,
          reasoning |-> "Analysis incomplete - reached iteration limit"]
    ELSE IF variant = "enrichment"
    THEN [decision |-> "PARTIAL_ENRICHMENT", confidence |-> 60,
          reasoning |-> "Enrichment partially complete but needs more iterations."]
    ELSE IF "check_signature" \in tool_results
    THEN IF sig_valid
         THEN [decision |-> "ACCEPT", confidence |-> 85,
               reasoning |-> "Signature check passed - file format is valid"]
         ELSE [decision |-> "REJECT", confidence |-> 85,
               reasoning |-> "Signature check failed"]
    ELSE [decision |-> "MANUAL_REVIEW", confidence |-> 50,
          reasoning |-> "Could not complete analysis - needs human review"]

valid_decisions == {"ACCEPT", "REJECT", "MANUAL_REVIEW"}

\* str.lower on the letters of the reasoning texts
LowerChar(c) ==
    CASE c = "I" -> "i"
      [] c = "V" -> "v"
      [] c = "A" -> "a"
      [] c = "L" -> "l"
      [] c = "D" -> "d"
      [] OTHER -> c

LowerText(text) == [i \in DOMAIN text |-> LowerChar(text[i])]

\* quality_agent.py lines 298-306: the decision assess_file returns for the
\* decision of the loop
NormalizeDecision(raw) ==
    IF raw.decision \notin valid_decisions
    THEN IF Contains(LowerText(raw.reasoning), <<"v", "a", "l", "i", "d">>)
         THEN "ACCEPT"
         ELSE IF Contains(LowerText(raw.reasoning), <<"i", "n", "v", "a", "l", "i", "d">>)
         THEN "REJECT"
         ELSE "MANUAL_REVIEW"
    ELSE raw.decision

\* what the entry point hands back for the decision raw of its loop:
\* assess_file normalizes it, the others pass it on
LoopReturn(variant, raw, calls, from_limit) ==
    [op |-> "reason_and_act", variant |-> variant, status |-> "ok",
     calls |-> calls, from_limit |-> from_limit, raw |-> raw,
     decision |-> IF variant = "quality" THEN NormalizeDecision(raw)
                  ELSE raw.decision]

\* assess_file lines 283-296, enrich_file lines 323-337, or a direct call
StartLoop ==
    /\ res = Idle
    /\ agent # NoAgent
    /\ agent.run = "ready"
    /\ agent' = [agent EXCEPT !.run = "looping", !.step = 0, !.tool_results = {},
                                 !.last_action = "none"]
    /\ UNCHANGED <<indexVars, disk, engine, files, vfile, tree, writers, cache, res>>

\* one iteration whose response is a tool call; an exception of
\* execute_tool leaves the loop and the entry point
LoopToolCall ==
    /\ agent # NoAgent
    /\ agent.run = "looping"
    /\ agent.step < max_iterations
    /\ \E reply \in LoopReplies(agent.variant) :
          LET parsed == LoopParse(agent.variant, reply)
              x == LoopExecuteTool(agent.variant, agent.tool_results, parsed,
                                   reply.tool_raises)
          IN /\ parsed.type = "tool_call"
             /\ IF x.status = "ok"
                THEN /\ agent' = [agent EXCEPT !.step = agent.step + 1,
                                               !.tool_results = x.tool_results,
                                               !.last_action = "tool_call"]
                     /\ res' = res
                ELSE /\ agent' = [agent EXCEPT !.run = "ready",
                                               !.step = agent.step + 1]
                     /\ res' = [op |-> "reason_and_act", variant |-> agent.variant,
                                status |-> x.status, calls |-> agent.step + 1,
                                from_limit |-> FALSE, raw |-> NoDecision,
                                decision |-> "none"]
    /\ UNCHANGED <<indexVars, disk, engine, files, vfile, tree, writers, cache>>

\* one iteration whose response is a decision
LoopDecision ==
    /\ agent # NoAgent
    /\ agent.run = "looping"
    /\ agent.step < max_iterations
    /\ \E reply \in LoopReplies(agent.variant) :
          LET parsed == LoopParse(agent.variant, reply)
          IN /\ parsed.type = "decision"
             /\ agent' = [agent EXCEPT !.run = "ready", !.step = agent.step + 1,
                                       !.last_action = "decision"]
             /\ res' = LoopReturn(agent.variant,
                                  [decision |-> parsed.decision,
                                   confidence |-> parsed.confidence,
                                   reasoning |-> parsed.reasoning],
                                  agent.step + 1, FALSE)
    /\ UNCHANGED <<indexVars, disk, engine, files, vfile, tree, writers, cache>>

\* one iteration whose response is neither; last_action is the action of
\* the thought appended last
LoopThought ==
    /\ agent # NoAgent
    /\ agent.run = "looping"
    /\ agent.step < max_iterations
    /\ \E reply \in LoopReplies(agent.variant) :
          LoopParse(agent.variant, reply).type = "thought"
    /\ agent' = [agent EXCEPT !.step = agent.step + 1, !.last_action = "thought"]
    /\ UNCHANGED <<indexVars, disk, engine, files, vfile, tree, writers, cache, res>>

\* the while condition fails
LoopLimit ==
    /\ agent # NoAgent
    /\ agent.run = "looping"
    /\ agent.step >= max_iterations
    /\ agent' = [agent EXCEPT !.run = "ready"]
    /\ res' = LoopReturn(agent.variant,
                         LimitDecision(agent.variant, agent.tool_results,
                                       agent.sig_valid),
                         agent.step, TRUE)
    /\ UNCHANGED <<indexVars, disk, engine, files, vfile, tree, writers, cache>>

InitLoop ==
    /\ vectors = <<>>
    /\ metadata_store = <<>>
    /\ filepath_map = EmptyMap
    /\ embedding_dim = ModelDim
    /\ disk = NoDisk
    /\ engine = [up |-> FALSE]
    /\ files = <<>>
    /\ vfile = NoFile
    /\ tree = NoTree
    /\ agent \in {[run |-> "ready", variant |-> v, sig_valid |-> b, step |-> 0,
                   tool_results |-> {}, last_action |-> "none"] :
                      v \in Variants, b \in BOOLEAN}
    /\ writers = NoWriters
    /\ cache = NoCache
    /\ res = Idle

NextLoop ==
    StartLoop \/ LoopToolCall \/ LoopDecision \/ LoopThought \/ LoopLimit \/ Ack

\* the three reasoning loops under every sequence of responses
SpecLoop == InitLoop /\ [][NextLoop]_vars

(* Claims about the in-memory index *)

\* the ordinals, in increasing order, at which ms holds a record of path p
RECURSIVE OrdinalsOf(_, _, _)
OrdinalsOf(ms, p, i) ==
    IF i > Len(ms) THEN <<>>
    ELSE IF ms[i].filepath = p
    THEN <<i - 1>> \o OrdinalsOf(ms, p, i + 1)
    ELSE OrdinalsOf(ms, p, i + 1)

\* the 1-based positions of the stored copies of path p
Copies(p) == {i \in 1..Len(metadata_store) : metadata_store[i].filepath = p}

\* C1: in every state reached by add and remove_duplicates calls the vector
\* store and the metadata store have the same length, the metadata at
\* ordinal i is the record added with vector i (its text is the text the row
\* embeds), every ordinal of the filepath map names a record of that path,
\* and a search never fails to find the metadata of a row.
C1_StoresAligned ==
    /\ Len(vectors) = Len(metadata_store)
    /\ \A i \in 1..Len(metadata_store) :
          i <= Len(vectors) /\ vectors[i].dir = metadata_store[i].text
    /\ \A p \in DOMAIN filepath_map :
          \A k \in 1..Len(filepath_map[p]) :
             /\ filepath_map[p][k] + 1 <= Len(metadata_store)
             /\ metadata_store[filepath_map[p][k] + 1].filepath = p
    /\ (res.op = "search" => res.status = "ok")

\* C2: no two entries of a list returned by search carry the same filepath.
C2_NoFilepathTwice ==
    res.op = "search" =>
        \A i, j \in 1..Len(res.results) :
            (i # j /\ res.results[i].filepath # NoPath)
                => res.results[i].filepath # res.results[j].filepath

\* C2 witness: a path stored twice, both copies within top_k, returned once
C2_Witness ==
    /\ res.op = "search"
    /\ res.top_k > Len(vectors)
    /\ res.threshold.none
    /\ \E p \in Paths :
          /\ Cardinality(Copies(p)) >= 2
          /\ \E i \in 1..Len(res.results) : res.results[i].filepath = p

\* C6 (state part): the filepath map holds, for every path, exactly the
\* ordinals of the records of that path in increasing order, and get_stats
\* reports the number of distinct filepaths and the number of records added.
C6_MapMatchesStore ==
    /\ \A p \in Paths :
          IF p \in DOMAIN filepath_map
          THEN filepath_map[p] = OrdinalsOf(metadata_store, p, 1)
                 /\ filepath_map[p] # <<>>
          ELSE Copies(p) = {}
    /\ DOMAIN filepath_map \subseteq Paths
    /\ (res.op = "get_stats" =>
          /\ res.unique_files = Cardinality({p \in Paths : Copies(p) # {}})
          /\ res.total_vectors = Len(metadata_store))

\* C6 (step part): no step removes or rewrites an ordinal already recorded
C6_OrdinalsKept ==
    \A p \in DOMAIN filepath_map :
        /\ p \in DOMAIN filepath_map'
        /\ Len(filepath_map'[p]) >= Len(filepath_map[p])
        /\ SubSeq(filepath_map'[p], 1, Len(filepath_map[p])) = filepath_map[p]

\* C6: after any sequence of successful add calls on a fresh index the
\* filepath map holds exactly the ordinals of each path's records, in
\* increasing order; an add never removes or rewrites a recorded ordinal;
\* get_stats reports unique_files and total_vectors accordingly.
C6_FilepathMapAccumulates == [](C6_MapMatchesStore) /\ [][C6_OrdinalsKept]_vars

\* C6 witness: a path recorded at two ordinals, with another record between
\* them, and get_stats called
C6_Witness ==
    /\ res.op = "get_stats"
    /\ res.unique_files = 2
    /\ \E p \in DOMAIN filepath_map :
          Len(filepath_map[p]) = 2 /\ filepath_map[p][2] > filepath_map[p][1] + 1

\* C7: the result returned for a filepath is a stored copy of that filepath:
\* the row at its index_position is the row added with the returned record,
\* its similarity score is that row's score and the highest among the stored
\* copies of the filepath, and no other entry is returned for the filepath.
C7_BestCopyReturned ==
    (res.op = "search" /\ res.status = "ok") =>
        \A k \in 1..Len(res.results) :
            LET e == res.results[k]
                pos == e.index_position + 1
            IN e.filepath # NoPath =>
                /\ pos \in Copies(e.filepath)
                /\ vectors[pos].dir = e.text
                /\ e.similarity_score = Dot(res.query, vectors[pos])
                /\ \A i \in Copies(e.filepath) :
                      Dot(res.query, Row(Encode(metadata_store[i].text, embedding_dim)))
                          <= e.similarity_score
                /\ \A j \in 1..Len(res.results) :
                      j # k => res.results[j].filepath # e.filepath

\* C13: add called with a number of embeddings that differs from the number
\* of metadata records fails with the size-mismatch error and leaves the
\* vector store, the metadata store and the filepath map unchanged.
C13_SizeMismatchRefused ==
    [][(res'.op = "add" /\ res'.embeddings # res'.metadata) =>
          /\ res'.status = "ValueError"
          /\ UNCHANGED <<vectors, metadata_store, filepath_map>>]_vars

\* C13 witness: a mismatched add refused on an index that holds records
C13_Witness ==
    /\ res.op = "add"
    /\ res.embeddings > res.metadata
    /\ res.metadata = 1
    /\ res.status = "ValueError"
    /\ Len(vectors) >= 1
    /\ Len(vectors) = Len(metadata_store)

\* C14: for every threshold passed to search that is not None, 0 and
\* negative values included, every returned result has a similarity score
\* greater than or equal to the threshold.
C14_ThresholdRespected ==
    (res.op = "search" /\ ~res.threshold.none) =>
        \A k \in 1..Len(res.results) :
            res.results[k].similarity_score >= res.threshold.v

\* C18: a candidate whose text holds the data file's stem and full name at
\* least 3 times in all is classified RELEVANT with confidence 0.95, and the
\* classification is reached without a call to the language model.
C18_FastPath ==
    (res.op = "discover_companions"
        /\ agent.candidate.stem + agent.candidate.filename >= 3) =>
        /\ agent.decision.decision = "RELEVANT"
        /\ res.confidence = 95
        /\ agent.step = 0

\* C19: when every call to the language model fails or times out, the
\* decision is UNCERTAIN with confidence 0.3 and a reason that names the
\* failure, the call returns normally and the candidate is listed in the
\* result.
C19_FailureIsUncertain ==
    (res.op = "discover_companions" /\ agent.step > 0
        /\ agent.failed = agent.step) =>
        /\ res.status = "ok"
        /\ agent.decision.decision = "UNCERTAIN"
        /\ res.confidence = 30
        /\ res.reasoning = "failure"
        /\ res.discovered.uncertain # {}

\* every writer is outside add
Quiescent == \A t \in WriterIds : writers.threads[t].pc = "idle"

\* some record's map ordinal, metadata position and vector position differ:
\* a map ordinal that names another filepath's record or another record's
\* vector, or, with no add in flight, a row without its record or a record
\* without its map ordinal
Misaligned ==
    \/ \E p \in DOMAIN filepath_map : \E k \in 1..Len(filepath_map[p]) :
          LET o == filepath_map[p][k]
          IN \/ o >= Len(metadata_store)
             \/ o >= Len(vectors)
             \/ metadata_store[o + 1].filepath # p
             \/ vectors[o + 1].dir # metadata_store[o + 1].text
    \/ /\ Quiescent
       /\ \/ Len(vectors) # Len(metadata_store)
          \/ \E i \in 1..Len(vectors) : vectors[i].dir # metadata_store[i].text
          \/ \E p \in Paths :
                IF p \in DOMAIN filepath_map
                THEN filepath_map[p] # OrdinalsOf(metadata_store, p, 1)
                ELSE Copies(p) # {}

\* C20: a state in which some record's ordinal in the filepath map, its
\* position in the metadata store and its position in the vector store are
\* not all equal is reached only by add calls that ran concurrently; add
\* calls serialized through a single writer never reach one.
C20_MisalignedOnlyIfConcurrent == Misaligned => writers.overlapped

\* C20 witness: two concurrent add calls have both returned and left a
\* record whose map ordinal points at the other writer's record
C20_Witness ==
    /\ Quiescent
    /\ writers.overlapped
    /\ Len(vectors) = 2
    /\ Len(metadata_store) = 2
    /\ \E p \in DOMAIN filepath_map : \E k \in 1..Len(filepath_map[p]) :
          LET o == filepath_map[p][k]
          IN /\ o < Len(metadata_store)
             /\ metadata_store[o + 1].filepath # p

\* C21: encode with the cache in use returns at every position i the
\* embedding of texts[i], equal to the uncached encoder's, whatever part of
\* the batch was cached before and also for a text that occurs twice; after
\* the call every text of the batch is a key of the cache, and no cached
\* value has been replaced by a different one.
C21_CachedEqualsUncached ==
    (res.op = "encode" /\ res.use_cache) =>
        /\ res.status = "ok"
        /\ Len(res.result) = Len(res.texts)
        /\ \A i \in 1..Len(res.texts) :
              /\ res.result[i] = Encode(res.texts[i], embedding_dim)
              /\ res.texts[i] \in DOMAIN cache
        /\ \A t \in DOMAIN res.before :
              t \in DOMAIN cache /\ cache[t] = res.before[t]

\* the canonical absolute form of a path: made absolute against the working
\* directory, "." dropped and "name/.." resolved
RECURSIVE Resolve(_, _)
Resolve(parts, done) ==
    IF parts = <<>> THEN done
    ELSE IF Head(parts) = "." THEN Resolve(Tail(parts), done)
    ELSE IF Head(parts) = ".."
    THEN Resolve(Tail(parts),
                 IF Len(done) > 1 THEN SubSeq(done, 1, Len(done) - 1) ELSE done)
    ELSE Resolve(Tail(parts), Append(done, Head(parts)))

Canonical(parts) ==
    IF parts # <<>> /\ Head(parts) = "/" THEN Resolve(parts, <<>>)
    ELSE Resolve(parts, Cwd)

\* the file a stored filepath names
FileNamed(s) ==
    Canonical(CHOOSE p \in {PurePath(sp) : sp \in Spellings} : Str(p) = s)

\* C22: the filepath stored with a record is the canonical absolute path of
\* its file, so a file indexed under two spellings has one filepath key and
\* search returns it only once.
C22_CanonicalFilepath ==
    /\ \A k \in 1..Len(metadata_store) :
          metadata_store[k].filepath = Str(FileNamed(metadata_store[k].filepath))
    /\ (res.op = "search" /\ res.status = "ok") =>
          \A i, j \in 1..Len(res.results) :
             i # j => FileNamed(res.results[i].filepath)
                         # FileNamed(res.results[j].filepath)

\* C23: remove_duplicates returns total_duplicates equal to the number of
\* metadata records it removed and filepaths_affected equal to the number of
\* filepaths that had more than one ordinal; total_duplicates is 0 only when
\* no record was removed.
C23_DuplicateCounts ==
    [][res'.op = "remove_duplicates" =>
          /\ res'.total_duplicates = Len(metadata_store) - Len(metadata_store')
          /\ res'.filepaths_affected =
                Cardinality({p \in DOMAIN filepath_map : Len(filepath_map[p]) > 1})]_vars

\* C24: search with no threshold returns top_k results whenever the index
\* holds at least top_k distinct filepaths, copies of one file at several
\* ordinals notwithstanding, and never more than top_k results.
C24_TopKDistinctFiles ==
    (res.op = "search" /\ res.status = "ok" /\ res.threshold.none) =>
        /\ Len(res.results) <= res.top_k
        /\ Cardinality({p \in Paths : Copies(p) # {}}) >= res.top_k =>
              Len(res.results) = res.top_k

\* C25: the data file and the companion documents of a record extracted
\* from an archive are read while the temporary extraction directory
\* exists, and the directory is removed only after every record that refers
\* to a path inside it has been embedded and added to the index.
C25_ReadBeforeCleanup ==
    tree.layout = "extraction" =>
        /\ \A k \in 1..Len(tree.indexed_files) : tree.indexed_files[k].data_read
        /\ tree.lost = 0
        /\ (tree.phase = "embedding" /\ tree.i <= Len(tree.indexed_files)) =>
              tree.temp_dir

\* C26: every record produced from an archive carries an archive_context
\* whose relative_path is the record's own path inside the archive, also
\* when the archive holds several data files and all have been processed.
C26_OwnRelativePath ==
    res.op = "index_path" =>
        \A i \in 1..Len(res.indexed_files) :
            res.indexed_files[i].from_archive =>
                res.indexed_files[i].relative_path = res.indexed_files[i].filepath

\* C27: every file whose name ends in one of the configured archive
\* extensions is recognised by is_archive and is extracted by
\* extract_archive rather than rejected as an unsupported format.
C27_ConfiguredEndingsExtracted ==
    (res.op = "index_path" /\ res.extract_archives) =>
        /\ IsArchive(tree.ending)
        /\ res.attempted
        /\ (~tree.corrupt /\ (\A i \in 1..Len(tree.members) : ~UnsafeName(tree.members[i])))
              => (res.archives_processed = 1 /\ res.errors = 0)

\* C28: every result check_file_signature returns has is_valid = true
\* exactly when its issues list is empty, so the invalid verdict of
\* quick_validate never comes with an empty list of issues in its message.
C28_ValidIffNoIssues ==
    (res.op = "check_file_signature" /\ res.status = "ok") =>
        /\ res.result.is_valid <=> (res.result.issues = <<>>)
        /\ quick_validate(res.result).is_valid = res.result.is_valid
        /\ ~quick_validate(res.result).is_valid =>
              Len(quick_validate(res.result).message) > 1

C28_Witness ==
    /\ res.op = "check_file_signature"
    /\ res.status = "ok"
    /\ res.result.issues = <<"Type mismatch">>
    /\ quick_validate(res.result) =
          [is_valid |-> FALSE, message |-> <<"Invalid: ", "Type mismatch">>]

\* C29: reason_and_act ends after at most max_iterations calls of the model
\* for every sequence of responses and always returns a decision, the
\* fallback of its loop when the limit is reached; in the base loop and in
\* the quality and enrichment variants.
C29_AlwaysReturnsDecision ==
    res.op = "reason_and_act" =>
        /\ res.calls <= max_iterations
        /\ res.status = "ok"
        /\ res.raw.decision # "none"
        /\ res.from_limit =>
              res.raw.decision \in {"INCOMPLETE", "ACCEPT", "REJECT",
                                    "MANUAL_REVIEW", "PARTIAL_ENRICHMENT"}

\* C30: assess_file returns ACCEPT, REJECT or MANUAL_REVIEW; a decision of
\* the loop outside that set becomes REJECT when the reasoning calls the
\* file invalid, ACCEPT when it calls it valid, MANUAL_REVIEW otherwise.
C30_NormalizedFromReasoning ==
    (res.op = "reason_and_act" /\ res.variant = "quality" /\ res.status = "ok") =>
        /\ res.decision \in valid_decisions
        /\ res.raw.decision \notin valid_decisions =>
              res.decision =
                 IF Contains(LowerText(res.raw.reasoning),
                             <<"i", "n", "v", "a", "l", "i", "d">>)
                 THEN "REJECT"
                 ELSE IF Contains(LowerText(res.raw.reasoning),
                                  <<"v", "a", "l", "i", "d">>)
                 THEN "ACCEPT"
                 ELSE "MANUAL_REVIEW"

====
